---- MODULE Spec2Model ----
(***************************************************************************)
(* The deferred work queue of gastown: enqueueBead (sling_queue.go),       *)
(* dispatchQueuedWork / dispatchSingleBead / recordDispatchFailure         *)
(* (queue_dispatch.go), the metadata codec (queue_metadata.go) and the     *)
(* queue runtime state (queue_state.go).                                   *)
(*                                                                         *)
(* Every `bd update`, `bd ready`, file read and file write is one atomic   *)
(* step; the processes (enqueuers, dispatchers, operator, polecats)        *)
(* interleave between those steps.                                         *)
(*                                                                         *)
(* A description is the sequence of its lines (strings.Split(s, "\n")),    *)
(* each line a string without line break; the empty description is <<>>.   *)
(***************************************************************************)
EXTENDS Integers, Sequences, FiniteSets, TLC

----------------------------------------------------------------------------
(* Bounds of the model *)

MaxEnqueues == 2      \* Spec: enqueueBead invocations in one behaviour
MaxCycles == 2        \* Spec: dispatchQueuedWork invocations
MaxExits == 1         \* polecat sessions that end in one behaviour
BatchCycles == 3      \* SpecBatch: dispatchQueuedWork invocations
SeqEnqueues == 3      \* SpecEnqueue: enqueueBead invocations
PauseCycles == 2      \* SpecPause: dispatchQueuedWork invocations
MaxOps == 2           \* SpecPause: gt queue pause / resume invocations
MaxSaves == 2         \* SpecSave: SaveQueueState invocations
MaxReads == 1         \* SpecSave: LoadQueueState invocations
MaxTime == 11         \* SpecWake: seconds on the clock
MaxSignals == 2       \* SpecWake: SignalWake calls
MaxConsumes == 3      \* SpecWake: ConsumeWakeSignal calls
MaxLimFails == 1      \* SpecLimit: failing operations on the usage-limit file
MaxMinutes == 17      \* SpecLimit: minutes on the clock
MaxRecords == 2       \* SpecLimit: usage limits recorded
MaxClears == 1        \* SpecLimit: gt usagelimit clear invocations

----------------------------------------------------------------------------
(* Program constants *)

maxDispatchFailures == 3
LabelQueued == "gt:queued"
LabelDispatchFailed == "gt:dispatch-failed"
LabelDispatched == "gt:queue-dispatched"
queueMetadataDelimiter == "---gt:queue:v1---"

----------------------------------------------------------------------------
(* Universe of the model *)

Beads == {"b1", "b2", "b3"}
Rigs == {"r1", "r2"}
Enqueuers == {"e1", "e2"}
Dispatchers == {"cli", "daemon"}


----------------------------------------------------------------------------
(* String helpers: the functions of the strings and strconv packages that  *)
(* the program uses, computed character by character.                      *)

Digits == <<"0", "1", "2", "3", "4", "5", "6", "7", "8", "9">>

\* the character of s at position i, as a string
Char(s, i) == SubSeq(s, i, i)

\* Characters.  A string of this module stands for a Go string character by
\* character.  A string literal of TLA+ holds the characters U+0001 to
\* U+00FF except U+0060, and of those from U+0100 to U+FFFF the ones whose
\* code point has 128 or more in its low byte, the surrogates excepted; these
\* are written as themselves.  Every other character (U+0000, U+0060, the
\* remaining ones from U+0100 on, those above U+FFFF, and U+E888, which is
\* given up for it) is written as Marker followed by the six hexadecimal
\* digits of its code point.  Latin1 and HighChars hold the characters that
\* are written as themselves, each at the place its code point gives it (a
\* space stands where there is none).
Marker == ""
Latin1 == "\t\n\f\r !\"#$%&'()*+,-./0123456789:;<=>?@ABCDEFGHIJKLMNOPQRSTUVWXYZ[\\]^_ abcdefghijklmnopqrstuvwxyz{|}~ ¡¢£¤¥¦§¨©ª«¬­®¯°±²³´µ¶·¸¹º»¼½¾¿ÀÁÂÃÄÅÆÇÈÉÊËÌÍÎÏÐÑÒÓÔÕÖ×ØÙÚÛÜÝÞßàáâãäåæçèéêëìíîïðñòóôõö÷øùúûüýþÿ"
HighChars == "ƀƁƂƃƄƅƆƇƈƉƊƋƌƍƎƏƐƑƒƓƔƕƖƗƘƙƚƛƜƝƞƟƠơƢƣƤƥƦƧƨƩƪƫƬƭƮƯưƱƲƳƴƵƶƷƸƹƺƻƼƽƾƿǀǁǂǃǄǅǆǇǈǉǊǋǌǍǎǏǐǑǒǓǔǕǖǗǘǙǚǛǜǝǞǟǠǡǢǣǤǥǦǧǨǩǪǫǬǭǮǯǰǱǲǳǴǵǶǷǸǹǺǻǼǽǾǿʀʁʂʃʄʅʆʇʈʉʊʋʌʍʎʏʐʑʒʓʔʕʖʗʘʙʚʛʜʝʞʟʠʡʢʣʤʥʦʧʨʩʪʫʬʭʮʯʰʱʲʳʴʵʶʷʸʹʺʻʼʽʾʿˀˁ˂˃˄˅ˆˇˈˉˊˋˌˍˎˏːˑ˒˓˔˕˖˗˘˙˚˛˜˝˞˟ˠˡˢˣˤ˥˦˧˨˩˪˫ˬ˭ˮ˯˰˱˲˳˴˵˶˷˸˹˺˻˼˽˾˿΀΁΂΃΄΅Ά·ΈΉΊ΋Ό΍ΎΏΐΑΒΓΔΕΖΗΘΙΚΛΜΝΞΟΠΡ΢ΣΤΥΦΧΨΩΪΫάέήίΰαβγδεζηθικλμνξοπρςστυφχψωϊϋόύώϏϐϑϒϓϔϕϖϗϘϙϚϛϜϝϞϟϠϡϢϣϤϥϦϧϨϩϪϫϬϭϮϯϰϱϲϳϴϵ϶ϷϸϹϺϻϼϽϾϿҀҁ҂҃҄҅҆҇҈҉ҊҋҌҍҎҏҐґҒғҔҕҖҗҘҙҚқҜҝҞҟҠҡҢңҤҥҦҧҨҩҪҫҬҭҮүҰұҲҳҴҵҶҷҸҹҺһҼҽҾҿӀӁӂӃӄӅӆӇӈӉӊӋӌӍӎӏӐӑӒӓӔӕӖӗӘәӚӛӜӝӞӟӠӡӢӣӤӥӦӧӨөӪӫӬӭӮӯӰӱӲӳӴӵӶӷӸӹӺӻӼӽӾӿրցւփքօֆևֈ։֊֋֌֍֎֏֐ְֱֲֳִֵֶַָֹֺֻּֽ֑֖֛֢֣֤֥֦֧֪֚֭֮֒֓֔֕֗֘֙֜֝֞֟֠֡֨֩֫֬֯־ֿ׀ׁׂ׃ׅׄ׆ׇ׈׉׊׋׌׍׎׏אבגדהוזחטיךכלםמןנסעףפץצקרשת׫׬׭׮ׯװױײ׳״׵׶׷׸׹׺׻׼׽׾׿ڀځڂڃڄڅچڇڈډڊڋڌڍڎڏڐڑڒړڔڕږڗژڙښڛڜڝڞڟڠڡڢڣڤڥڦڧڨکڪګڬڭڮگڰڱڲڳڴڵڶڷڸڹںڻڼڽھڿۀہۂۃۄۅۆۇۈۉۊۋیۍێۏېۑےۓ۔ەۖۗۘۙۚۛۜ۝۞ۣ۟۠ۡۢۤۥۦۧۨ۩۪ۭ۫۬ۮۯ۰۱۲۳۴۵۶۷۸۹ۺۻۼ۽۾ۿހށނރބޅކއވމފދތލގޏސޑޒޓޔޕޖޗޘޙޚޛޜޝޞޟޠޡޢޣޤޥަާިީުޫެޭޮޯްޱ޲޳޴޵޶޷޸޹޺޻޼޽޾޿߀߁߂߃߄߅߆߇߈߉ߊߋߌߍߎߏߐߑߒߓߔߕߖߗߘߙߚߛߜߝߞߟߠߡߢߣߤߥߦߧߨߩߪ߲߫߬߭߮߯߰߱߳ߴߵ߶߷߸߹ߺ߻߼߽߾߿ࢀࢁࢂࢃࢄࢅࢆࢇ࢈ࢉࢊࢋࢌࢍࢎ࢏࢐࢑࢒࢓࢔࢕࢖࢙࢚࢛ࢗ࢘࢜࢝࢞࢟ࢠࢡࢢࢣࢤࢥࢦࢧࢨࢩࢪࢫࢬࢭࢮࢯࢰࢱࢲࢳࢴࢵࢶࢷࢸࢹࢺࢻࢼࢽࢾࢿࣀࣁࣂࣃࣄࣅࣆࣇࣈࣉ࣏࣐࣑࣒࣓࣊࣋࣌࣍࣎ࣔࣕࣖࣗࣘࣙࣚࣛࣜࣝࣞࣟ࣠࣡࣢ࣰࣱࣲࣣࣦࣩ࣭࣮࣯ࣶࣹࣺࣤࣥࣧࣨ࣪࣫࣬ࣳࣴࣵࣷࣸࣻࣼࣽࣾࣿঀঁংঃ঄অআইঈউঊঋঌ঍঎এঐ঑঒ওঔকখগঘঙচছজঝঞটঠডঢণতথদধন঩পফবভমযর঱ল঳঴঵শষসহ঺঻়ঽািীুূৃৄ৅৆েৈ৉৊োৌ্ৎ৏৐৑৒৓৔৕৖ৗ৘৙৚৛ড়ঢ়৞য়ৠৡৢৣ৤৥০১২৩৪৫৬৭৮৯ৰৱ৲৳৴৵৶৷৸৹৺৻ৼ৽৾৿઀ઁંઃ઄અઆઇઈઉઊઋઌઍ઎એઐઑ઒ઓઔકખગઘઙચછજઝઞટઠડઢણતથદધન઩પફબભમયર઱લળ઴વશષસહ઺઻઼ઽાિીુૂૃૄૅ૆ેૈૉ૊ોૌ્૎૏ૐ૑૒૓૔૕૖૗૘૙૚૛૜૝૞૟ૠૡૢૣ૤૥૦૧૨૩૪૫૬૭૮૯૰૱૲૳૴૵૶૷૸ૹૺૻૼ૽૾૿஀஁ஂஃ஄அஆஇஈஉஊ஋஌஍எஏஐ஑ஒஓஔக஖஗஘ஙச஛ஜ஝ஞட஠஡஢ணத஥஦஧நனப஫஬஭மயரறலளழவஶஷஸஹ஺஻஼஽ாிீுூ௃௄௅ெேை௉ொோௌ்௎௏ௐ௑௒௓௔௕௖ௗ௘௙௚௛௜௝௞௟௠௡௢௣௤௥௦௧௨௩௪௫௬௭௮௯௰௱௲௳௴௵௶௷௸௹௺௻௼௽௾௿ಀಁಂಃ಄ಅಆಇಈಉಊಋಌ಍ಎಏಐ಑ಒಓಔಕಖಗಘಙಚಛಜಝಞಟಠಡಢಣತಥದಧನ಩ಪಫಬಭಮಯರಱಲಳ಴ವಶಷಸಹ಺಻಼ಽಾಿೀುೂೃೄ೅ೆೇೈ೉ೊೋೌ್೎೏೐೑೒೓೔ೕೖ೗೘೙೚೛೜ೝೞ೟ೠೡೢೣ೤೥೦೧೨೩೪೫೬೭೮೯೰ೱೲೳ೴೵೶೷೸೹೺೻೼೽೾೿඀ඁංඃ඄අආඇඈඉඊඋඌඍඎඏඐඑඒඓඔඕඖ඗඘඙කඛගඝඞඟචඡජඣඤඥඦටඨඩඪණඬතථදධන඲ඳපඵබභමඹයර඼ල඾඿වශෂසහළෆ෇෈෉්෋෌෍෎ාැෑිීු෕ූ෗ෘෙේෛොෝෞෟ෠෡෢෣෤෥෦෧෨෩෪෫෬෭෮෯෰෱ෲෳ෴෵෶෷෸෹෺෻෼෽෾෿຀ກຂ຃ຄ຅ຆງຈຉຊ຋ຌຍຎຏຐຑຒຓດຕຖທຘນບປຜຝພຟຠມຢຣ຤ລ຦ວຨຩສຫຬອຮຯະັາຳິີຶື຺ຸູົຼຽ຾຿ເແໂໃໄ໅ໆ໇່້໊໋໌ໍ໎໏໐໑໒໓໔໕໖໗໘໙໚໛ໜໝໞໟ໠໡໢໣໤໥໦໧໨໩໪໫໬໭໮໯໰໱໲໳໴໵໶໷໸໹໺໻໼໽໾໿྄ཱྀྀྂྃ྅྆྇ྈྉྊྋྌྍྎྏྐྑྒྒྷྔྕྖྗ྘ྙྚྛྜྜྷྞྟྠྡྡྷྣྤྥྦྦྷྨྩྪྫྫྷྭྮྯྰྱྲླྴྵྶྷྸྐྵྺྻྼ྽྾྿࿀࿁࿂࿃࿄࿅࿆࿇࿈࿉࿊࿋࿌࿍࿎࿏࿐࿑࿒࿓࿔࿕࿖࿗࿘࿙࿚࿛࿜࿝࿞࿟࿠࿡࿢࿣࿤࿥࿦࿧࿨࿩࿪࿫࿬࿭࿮࿯࿰࿱࿲࿳࿴࿵࿶࿷࿸࿹࿺࿻࿼࿽࿾࿿ႀႁႂႃႄႅႆႇႈႉႊႋႌႍႎႏ႐႑႒႓႔႕႖႗႘႙ႚႛႜႝ႞႟ႠႡႢႣႤႥႦႧႨႩႪႫႬႭႮႯႰႱႲႳႴႵႶႷႸႹႺႻႼႽႾႿჀჁჂჃჄჅ჆Ⴧ჈჉჊჋჌Ⴭ჎჏აბგდევზთიკლმნოპჟრსტუფქღყშჩცძწჭხჯჰჱჲჳჴჵჶჷჸჹჺ჻ჼჽჾჿᆀᆁᆂᆃᆄᆅᆆᆇᆈᆉᆊᆋᆌᆍᆎᆏᆐᆑᆒᆓᆔᆕᆖᆗᆘᆙᆚᆛᆜᆝᆞᆟᆠᆡᆢᆣᆤᆥᆦᆧᆨᆩᆪᆫᆬᆭᆮᆯᆰᆱᆲᆳᆴᆵᆶᆷᆸᆹᆺᆻᆼᆽᆾᆿᇀᇁᇂᇃᇄᇅᇆᇇᇈᇉᇊᇋᇌᇍᇎᇏᇐᇑᇒᇓᇔᇕᇖᇗᇘᇙᇚᇛᇜᇝᇞᇟᇠᇡᇢᇣᇤᇥᇦᇧᇨᇩᇪᇫᇬᇭᇮᇯᇰᇱᇲᇳᇴᇵᇶᇷᇸᇹᇺᇻᇼᇽᇾᇿኀኁኂኃኄኅኆኇኈ኉ኊኋኌኍ኎኏ነኑኒናኔንኖኗኘኙኚኛኜኝኞኟአኡኢኣኤእኦኧከኩኪካኬክኮኯኰ኱ኲኳኴኵ኶኷ኸኹኺኻኼኽኾ኿ዀ዁ዂዃዄዅ዆዇ወዉዊዋዌውዎዏዐዑዒዓዔዕዖ዗ዘዙዚዛዜዝዞዟዠዡዢዣዤዥዦዧየዩዪያዬይዮዯደዱዲዳዴድዶዷዸዹዺዻዼዽዾዿᎀᎁᎂᎃᎄᎅᎆᎇᎈᎉᎊᎋᎌᎍᎎᎏ᎐᎑᎒᎓᎔᎕᎖᎗᎘᎙᎚᎛᎜᎝᎞᎟ᎠᎡᎢᎣᎤᎥᎦᎧᎨᎩᎪᎫᎬᎭᎮᎯᎰᎱᎲᎳᎴᎵᎶᎷᎸᎹᎺᎻᎼᎽᎾᎿᏀᏁᏂᏃᏄᏅᏆᏇᏈᏉᏊᏋᏌᏍᏎᏏᏐᏑᏒᏓᏔᏕᏖᏗᏘᏙᏚᏛᏜᏝᏞᏟᏠᏡᏢᏣᏤᏥᏦᏧᏨᏩᏪᏫᏬᏭᏮᏯᏰᏱᏲᏳᏴᏵ᏶᏷ᏸᏹᏺᏻᏼᏽ᏾᏿ᒀᒁᒂᒃᒄᒅᒆᒇᒈᒉᒊᒋᒌᒍᒎᒏᒐᒑᒒᒓᒔᒕᒖᒗᒘᒙᒚᒛᒜᒝᒞᒟᒠᒡᒢᒣᒤᒥᒦᒧᒨᒩᒪᒫᒬᒭᒮᒯᒰᒱᒲᒳᒴᒵᒶᒷᒸᒹᒺᒻᒼᒽᒾᒿᓀᓁᓂᓃᓄᓅᓆᓇᓈᓉᓊᓋᓌᓍᓎᓏᓐᓑᓒᓓᓔᓕᓖᓗᓘᓙᓚᓛᓜᓝᓞᓟᓠᓡᓢᓣᓤᓥᓦᓧᓨᓩᓪᓫᓬᓭᓮᓯᓰᓱᓲᓳᓴᓵᓶᓷᓸᓹᓺᓻᓼᓽᓾᓿᖀᖁᖂᖃᖄᖅᖆᖇᖈᖉᖊᖋᖌᖍᖎᖏᖐᖑᖒᖓᖔᖕᖖᖗᖘᖙᖚᖛᖜᖝᖞᖟᖠᖡᖢᖣᖤᖥᖦᖧᖨᖩᖪᖫᖬᖭᖮᖯᖰᖱᖲᖳᖴᖵᖶᖷᖸᖹᖺᖻᖼᖽᖾᖿᗀᗁᗂᗃᗄᗅᗆᗇᗈᗉᗊᗋᗌᗍᗎᗏᗐᗑᗒᗓᗔᗕᗖᗗᗘᗙᗚᗛᗜᗝᗞᗟᗠᗡᗢᗣᗤᗥᗦᗧᗨᗩᗪᗫᗬᗭᗮᗯᗰᗱᗲᗳᗴᗵᗶᗷᗸᗹᗺᗻᗼᗽᗾᗿ ᚁᚂᚃᚄᚅᚆᚇᚈᚉᚊᚋᚌᚍᚎᚏᚐᚑᚒᚓᚔᚕᚖᚗᚘᚙᚚ᚛᚜᚝᚞᚟ᚠᚡᚢᚣᚤᚥᚦᚧᚨᚩᚪᚫᚬᚭᚮᚯᚰᚱᚲᚳᚴᚵᚶᚷᚸᚹᚺᚻᚼᚽᚾᚿᛀᛁᛂᛃᛄᛅᛆᛇᛈᛉᛊᛋᛌᛍᛎᛏᛐᛑᛒᛓᛔᛕᛖᛗᛘᛙᛚᛛᛜᛝᛞᛟᛠᛡᛢᛣᛤᛥᛦᛧᛨᛩᛪ᛫᛬᛭ᛮᛯᛰᛱᛲᛳᛴᛵᛶᛷᛸ᛹᛺᛻᛼᛽᛾᛿កខគឃងចឆជឈញដឋឌឍណតថទធនបផពភមយរលវឝឞសហឡអឣឤឥឦឧឨឩឪឫឬឭឮឯឰឱឲឳ឴឵ាិីឹឺុូួើឿៀេែៃោៅំះៈ៉៊់៌៍៎៏័៑្៓។៕៖ៗ៘៙៚៛ៜ៝៞៟០១២៣៤៥៦៧៨៩៪៫៬៭៮៯៰៱៲៳៴៵៶៷៸៹៺៻៼៽៾៿ᢀᢁᢂᢃᢄᢅᢆᢇᢈᢉᢊᢋᢌᢍᢎᢏᢐᢑᢒᢓᢔᢕᢖᢗᢘᢙᢚᢛᢜᢝᢞᢟᢠᢡᢢᢣᢤᢥᢦᢧᢨᢩᢪ᢫᢬᢭᢮᢯ᢰᢱᢲᢳᢴᢵᢶᢷᢸᢹᢺᢻᢼᢽᢾᢿᣀᣁᣂᣃᣄᣅᣆᣇᣈᣉᣊᣋᣌᣍᣎᣏᣐᣑᣒᣓᣔᣕᣖᣗᣘᣙᣚᣛᣜᣝᣞᣟᣠᣡᣢᣣᣤᣥᣦᣧᣨᣩᣪᣫᣬᣭᣮᣯᣰᣱᣲᣳᣴᣵ᣶᣷᣸᣹᣺᣻᣼᣽᣾᣿ᦀᦁᦂᦃᦄᦅᦆᦇᦈᦉᦊᦋᦌᦍᦎᦏᦐᦑᦒᦓᦔᦕᦖᦗᦘᦙᦚᦛᦜᦝᦞᦟᦠᦡᦢᦣᦤᦥᦦᦧᦨᦩᦪᦫ᦬᦭᦮᦯ᦰᦱᦲᦳᦴᦵᦶᦷᦸᦹᦺᦻᦼᦽᦾᦿᧀᧁᧂᧃᧄᧅᧆᧇᧈᧉ᧊᧋᧌᧍᧎᧏᧐᧑᧒᧓᧔᧕᧖᧗᧘᧙᧚᧛᧜᧝᧞᧟᧠᧡᧢᧣᧤᧥᧦᧧᧨᧩᧪᧫᧬᧭᧮᧯᧰᧱᧲᧳᧴᧵᧶᧷᧸᧹᧺᧻᧼᧽᧾᧿᪀᪁᪂᪃᪄᪅᪆᪇᪈᪉᪊᪋᪌᪍᪎᪏᪐᪑᪒᪓᪔᪕᪖᪗᪘᪙᪚᪛᪜᪝᪞᪟᪠᪡᪢᪣᪤᪥᪦ᪧ᪨᪩᪪᪫᪬᪭᪮᪯᪵᪶᪷᪸᪹᪺᪽᪰᪱᪲᪳᪴᪻᪼᪾ᪿᫀ᫃᫄᫊᫁᫂᫅᫆᫇᫈᫉᫋ᫌᫍᫎ᫏᫐᫑᫒᫓᫔᫕᫖᫗᫘᫙᫚᫛᫜᫝᫞᫟᫠᫡᫢᫣᫤᫥᫦᫧᫨᫩᫪᫫᫬᫭᫮᫯᫰᫱᫲᫳᫴᫵᫶᫷᫸᫹᫺᫻᫼᫽᫾᫿ᮀᮁᮂᮃᮄᮅᮆᮇᮈᮉᮊᮋᮌᮍᮎᮏᮐᮑᮒᮓᮔᮕᮖᮗᮘᮙᮚᮛᮜᮝᮞᮟᮠᮡᮢᮣᮤᮥᮦᮧᮨᮩ᮪᮫ᮬᮭᮮᮯ᮰᮱᮲᮳᮴᮵᮶᮷᮸᮹ᮺᮻᮼᮽᮾᮿᯀᯁᯂᯃᯄᯅᯆᯇᯈᯉᯊᯋᯌᯍᯎᯏᯐᯑᯒᯓᯔᯕᯖᯗᯘᯙᯚᯛᯜᯝᯞᯟᯠᯡᯢᯣᯤᯥ᯦ᯧᯨᯩᯪᯫᯬᯭᯮᯯᯰᯱ᯲᯳᯴᯵᯶᯷᯸᯹᯺᯻᯼᯽᯾᯿ᲀᲁᲂᲃᲄᲅᲆᲇᲈᲉᲊ᲋᲌᲍᲎᲏ᲐᲑᲒᲓᲔᲕᲖᲗᲘᲙᲚᲛᲜᲝᲞᲟᲠᲡᲢᲣᲤᲥᲦᲧᲨᲩᲪᲫᲬᲭᲮᲯᲰᲱᲲᲳᲴᲵᲶᲷᲸᲹᲺ᲻᲼ᲽᲾᲿ᳀᳁᳂᳃᳄᳅᳆᳇᳈᳉᳊᳋᳌᳍᳎᳏᳐᳑᳒᳓᳔᳕᳖᳗᳘᳙᳜᳝᳞᳟᳚᳛᳠᳡᳢᳣᳤᳥᳦᳧᳨ᳩᳪᳫᳬ᳭ᳮᳯᳰᳱᳲᳳ᳴ᳵᳶ᳷᳸᳹ᳺ᳻᳼᳽᳾᳿ᶀᶁᶂᶃᶄᶅᶆᶇᶈᶉᶊᶋᶌᶍᶎᶏᶐᶑᶒᶓᶔᶕᶖᶗᶘᶙᶚᶛᶜᶝᶞᶟᶠᶡᶢᶣᶤᶥᶦᶧᶨᶩᶪᶫᶬᶭᶮᶯᶰᶱᶲᶳᶴᶵᶶᶷᶸᶹᶺᶻᶼᶽᶾᶿ᷐᷎᷺᷂᷊᷏᷹᷽᷿᷷᷸᷀᷁᷃᷄᷅᷆᷇᷈᷉᷋᷌᷑᷒ᷓᷔᷕᷖᷗᷘᷙᷚᷛᷜᷝᷞᷟᷠᷡᷢᷣᷤᷥᷦᷧᷨᷩᷪᷫᷬᷭᷮᷯᷰᷱᷲᷳᷴ᷵᷻᷾᷶᷼᷍ẀẁẂẃẄẅẆẇẈẉẊẋẌẍẎẏẐẑẒẓẔẕẖẗẘẙẚẛẜẝẞẟẠạẢảẤấẦầẨẩẪẫẬậẮắẰằẲẳẴẵẶặẸẹẺẻẼẽẾếỀềỂểỄễỆệỈỉỊịỌọỎỏỐốỒồỔổỖỗỘộỚớỜờỞởỠỡỢợỤụỦủỨứỪừỬửỮữỰựỲỳỴỵỶỷỸỹỺỻỼỽỾỿᾀᾁᾂᾃᾄᾅᾆᾇᾈᾉᾊᾋᾌᾍᾎᾏᾐᾑᾒᾓᾔᾕᾖᾗᾘᾙᾚᾛᾜᾝᾞᾟᾠᾡᾢᾣᾤᾥᾦᾧᾨᾩᾪᾫᾬᾭᾮᾯᾰᾱᾲᾳᾴ᾵ᾶᾷᾸᾹᾺΆᾼ᾽ι᾿῀῁ῂῃῄ῅ῆῇῈΈῊΉῌ῍῎῏ῐῑῒΐ῔῕ῖῗῘῙῚΊ῜῝῞῟ῠῡῢΰῤῥῦῧῨῩῪΎῬ῭΅`῰῱ῲῳῴ῵ῶῷῸΌῺΏῼ´῾῿₀₁₂₃₄₅₆₇₈₉₊₋₌₍₎₏ₐₑₒₓₔₕₖₗₘₙₚₛₜ₝₞₟₠₡₢₣₤₥₦₧₨₩₪₫€₭₮₯₰₱₲₳₴₵₶₷₸₹₺₻₼₽₾₿⃀⃁⃂⃃⃄⃅⃆⃇⃈⃉⃊⃋⃌⃍⃎⃏⃒⃓⃘⃙⃚⃐⃑⃔⃕⃖⃗⃛⃜⃝⃞⃟⃠⃡⃢⃣⃤⃥⃦⃪⃫⃨⃬⃭⃮⃯⃧⃩⃰⃱⃲⃳⃴⃵⃶⃷⃸⃹⃺⃻⃼⃽⃾⃿ↀↁↂↃↄↅↆↇↈ↉↊↋↌↍↎↏←↑→↓↔↕↖↗↘↙↚↛↜↝↞↟↠↡↢↣↤↥↦↧↨↩↪↫↬↭↮↯↰↱↲↳↴↵↶↷↸↹↺↻↼↽↾↿⇀⇁⇂⇃⇄⇅⇆⇇⇈⇉⇊⇋⇌⇍⇎⇏⇐⇑⇒⇓⇔⇕⇖⇗⇘⇙⇚⇛⇜⇝⇞⇟⇠⇡⇢⇣⇤⇥⇦⇧⇨⇩⇪⇫⇬⇭⇮⇯⇰⇱⇲⇳⇴⇵⇶⇷⇸⇹⇺⇻⇼⇽⇾⇿⊀⊁⊂⊃⊄⊅⊆⊇⊈⊉⊊⊋⊌⊍⊎⊏⊐⊑⊒⊓⊔⊕⊖⊗⊘⊙⊚⊛⊜⊝⊞⊟⊠⊡⊢⊣⊤⊥⊦⊧⊨⊩⊪⊫⊬⊭⊮⊯⊰⊱⊲⊳⊴⊵⊶⊷⊸⊹⊺⊻⊼⊽⊾⊿⋀⋁⋂⋃⋄⋅⋆⋇⋈⋉⋊⋋⋌⋍⋎⋏⋐⋑⋒⋓⋔⋕⋖⋗⋘⋙⋚⋛⋜⋝⋞⋟⋠⋡⋢⋣⋤⋥⋦⋧⋨⋩⋪⋫⋬⋭⋮⋯⋰⋱⋲⋳⋴⋵⋶⋷⋸⋹⋺⋻⋼⋽⋾⋿⎀⎁⎂⎃⎄⎅⎆⎇⎈⎉⎊⎋⎌⎍⎎⎏⎐⎑⎒⎓⎔⎕⎖⎗⎘⎙⎚⎛⎜⎝⎞⎟⎠⎡⎢⎣⎤⎥⎦⎧⎨⎩⎪⎫⎬⎭⎮⎯⎰⎱⎲⎳⎴⎵⎶⎷⎸⎹⎺⎻⎼⎽⎾⎿⏀⏁⏂⏃⏄⏅⏆⏇⏈⏉⏊⏋⏌⏍⏎⏏⏐⏑⏒⏓⏔⏕⏖⏗⏘⏙⏚⏛⏜⏝⏞⏟⏠⏡⏢⏣⏤⏥⏦⏧⏨⏩⏪⏫⏬⏭⏮⏯⏰⏱⏲⏳⏴⏵⏶⏷⏸⏹⏺⏻⏼⏽⏾⏿⒀⒁⒂⒃⒄⒅⒆⒇⒈⒉⒊⒋⒌⒍⒎⒏⒐⒑⒒⒓⒔⒕⒖⒗⒘⒙⒚⒛⒜⒝⒞⒟⒠⒡⒢⒣⒤⒥⒦⒧⒨⒩⒪⒫⒬⒭⒮⒯⒰⒱⒲⒳⒴⒵ⒶⒷⒸⒹⒺⒻⒼⒽⒾⒿⓀⓁⓂⓃⓄⓅⓆⓇⓈⓉⓊⓋⓌⓍⓎⓏⓐⓑⓒⓓⓔⓕⓖⓗⓘⓙⓚⓛⓜⓝⓞⓟⓠⓡⓢⓣⓤⓥⓦⓧⓨⓩ⓪⓫⓬⓭⓮⓯⓰⓱⓲⓳⓴⓵⓶⓷⓸⓹⓺⓻⓼⓽⓾⓿▀▁▂▃▄▅▆▇█▉▊▋▌▍▎▏▐░▒▓▔▕▖▗▘▙▚▛▜▝▞▟■□▢▣▤▥▦▧▨▩▪▫▬▭▮▯▰▱▲△▴▵▶▷▸▹►▻▼▽▾▿◀◁◂◃◄◅◆◇◈◉◊○◌◍◎●◐◑◒◓◔◕◖◗◘◙◚◛◜◝◞◟◠◡◢◣◤◥◦◧◨◩◪◫◬◭◮◯◰◱◲◳◴◵◶◷◸◹◺◻◼◽◾◿⚀⚁⚂⚃⚄⚅⚆⚇⚈⚉⚊⚋⚌⚍⚎⚏⚐⚑⚒⚓⚔⚕⚖⚗⚘⚙⚚⚛⚜⚝⚞⚟⚠⚡⚢⚣⚤⚥⚦⚧⚨⚩⚪⚫⚬⚭⚮⚯⚰⚱⚲⚳⚴⚵⚶⚷⚸⚹⚺⚻⚼⚽⚾⚿⛀⛁⛂⛃⛄⛅⛆⛇⛈⛉⛊⛋⛌⛍⛎⛏⛐⛑⛒⛓⛔⛕⛖⛗⛘⛙⛚⛛⛜⛝⛞⛟⛠⛡⛢⛣⛤⛥⛦⛧⛨⛩⛪⛫⛬⛭⛮⛯⛰⛱⛲⛳⛴⛵⛶⛷⛸⛹⛺⛻⛼⛽⛾⛿➀➁➂➃➄➅➆➇➈➉➊➋➌➍➎➏➐➑➒➓➔➕➖➗➘➙➚➛➜➝➞➟➠➡➢➣➤➥➦➧➨➩➪➫➬➭➮➯➰➱➲➳➴➵➶➷➸➹➺➻➼➽➾➿⟀⟁⟂⟃⟄⟅⟆⟇⟈⟉⟊⟋⟌⟍⟎⟏⟐⟑⟒⟓⟔⟕⟖⟗⟘⟙⟚⟛⟜⟝⟞⟟⟠⟡⟢⟣⟤⟥⟦⟧⟨⟩⟪⟫⟬⟭⟮⟯⟰⟱⟲⟳⟴⟵⟶⟷⟸⟹⟺⟻⟼⟽⟾⟿⢀⢁⢂⢃⢄⢅⢆⢇⢈⢉⢊⢋⢌⢍⢎⢏⢐⢑⢒⢓⢔⢕⢖⢗⢘⢙⢚⢛⢜⢝⢞⢟⢠⢡⢢⢣⢤⢥⢦⢧⢨⢩⢪⢫⢬⢭⢮⢯⢰⢱⢲⢳⢴⢵⢶⢷⢸⢹⢺⢻⢼⢽⢾⢿⣀⣁⣂⣃⣄⣅⣆⣇⣈⣉⣊⣋⣌⣍⣎⣏⣐⣑⣒⣓⣔⣕⣖⣗⣘⣙⣚⣛⣜⣝⣞⣟⣠⣡⣢⣣⣤⣥⣦⣧⣨⣩⣪⣫⣬⣭⣮⣯⣰⣱⣲⣳⣴⣵⣶⣷⣸⣹⣺⣻⣼⣽⣾⣿⦀⦁⦂⦃⦄⦅⦆⦇⦈⦉⦊⦋⦌⦍⦎⦏⦐⦑⦒⦓⦔⦕⦖⦗⦘⦙⦚⦛⦜⦝⦞⦟⦠⦡⦢⦣⦤⦥⦦⦧⦨⦩⦪⦫⦬⦭⦮⦯⦰⦱⦲⦳⦴⦵⦶⦷⦸⦹⦺⦻⦼⦽⦾⦿⧀⧁⧂⧃⧄⧅⧆⧇⧈⧉⧊⧋⧌⧍⧎⧏⧐⧑⧒⧓⧔⧕⧖⧗⧘⧙⧚⧛⧜⧝⧞⧟⧠⧡⧢⧣⧤⧥⧦⧧⧨⧩⧪⧫⧬⧭⧮⧯⧰⧱⧲⧳⧴⧵⧶⧷⧸⧹⧺⧻⧼⧽⧾⧿⪀⪁⪂⪃⪄⪅⪆⪇⪈⪉⪊⪋⪌⪍⪎⪏⪐⪑⪒⪓⪔⪕⪖⪗⪘⪙⪚⪛⪜⪝⪞⪟⪠⪡⪢⪣⪤⪥⪦⪧⪨⪩⪪⪫⪬⪭⪮⪯⪰⪱⪲⪳⪴⪵⪶⪷⪸⪹⪺⪻⪼⪽⪾⪿⫀⫁⫂⫃⫄⫅⫆⫇⫈⫉⫊⫋⫌⫍⫎⫏⫐⫑⫒⫓⫔⫕⫖⫗⫘⫙⫚⫛⫝̸⫝⫞⫟⫠⫡⫢⫣⫤⫥⫦⫧⫨⫩⫪⫫⫬⫭⫮⫯⫰⫱⫲⫳⫴⫵⫶⫷⫸⫹⫺⫻⫼⫽⫾⫿⮀⮁⮂⮃⮄⮅⮆⮇⮈⮉⮊⮋⮌⮍⮎⮏⮐⮑⮒⮓⮔⮕⮖⮗⮘⮙⮚⮛⮜⮝⮞⮟⮠⮡⮢⮣⮤⮥⮦⮧⮨⮩⮪⮫⮬⮭⮮⮯⮰⮱⮲⮳⮴⮵⮶⮷⮸⮹⮺⮻⮼⮽⮾⮿⯀⯁⯂⯃⯄⯅⯆⯇⯈⯉⯊⯋⯌⯍⯎⯏⯐⯑⯒⯓⯔⯕⯖⯗⯘⯙⯚⯛⯜⯝⯞⯟⯠⯡⯢⯣⯤⯥⯦⯧⯨⯩⯪⯫⯬⯭⯮⯯⯰⯱⯲⯳⯴⯵⯶⯷⯸⯹⯺⯻⯼⯽⯾⯿ⲀⲁⲂⲃⲄⲅⲆⲇⲈⲉⲊⲋⲌⲍⲎⲏⲐⲑⲒⲓⲔⲕⲖⲗⲘⲙⲚⲛⲜⲝⲞⲟⲠⲡⲢⲣⲤⲥⲦⲧⲨⲩⲪⲫⲬⲭⲮⲯⲰⲱⲲⲳⲴⲵⲶⲷⲸⲹⲺⲻⲼⲽⲾⲿⳀⳁⳂⳃⳄⳅⳆⳇⳈⳉⳊⳋⳌⳍⳎⳏⳐⳑⳒⳓⳔⳕⳖⳗⳘⳙⳚⳛⳜⳝⳞⳟⳠⳡⳢⳣⳤ⳥⳦⳧⳨⳩⳪ⳫⳬⳭⳮ⳯⳰⳱Ⳳⳳ⳴⳵⳶⳷⳸⳹⳺⳻⳼⳽⳾⳿ⶀⶁⶂⶃⶄⶅⶆⶇⶈⶉⶊⶋⶌⶍⶎⶏⶐⶑⶒⶓⶔⶕⶖ⶗⶘⶙⶚⶛⶜⶝⶞⶟ⶠⶡⶢⶣⶤⶥⶦ⶧ⶨⶩⶪⶫⶬⶭⶮ⶯ⶰⶱⶲⶳⶴⶵⶶ⶷ⶸⶹⶺⶻⶼⶽⶾ⶿ⷀⷁⷂⷃⷄⷅⷆ⷇ⷈⷉⷊⷋⷌⷍⷎ⷏ⷐⷑⷒⷓⷔⷕⷖ⷗ⷘⷙⷚⷛⷜⷝⷞ⷟ⷠⷡⷢⷣⷤⷥⷦⷧⷨⷩⷪⷫⷬⷭⷮⷯⷰⷱⷲⷳⷴⷵⷶⷷⷸⷹⷺⷻⷼⷽⷾⷿ⺀⺁⺂⺃⺄⺅⺆⺇⺈⺉⺊⺋⺌⺍⺎⺏⺐⺑⺒⺓⺔⺕⺖⺗⺘⺙⺚⺛⺜⺝⺞⺟⺠⺡⺢⺣⺤⺥⺦⺧⺨⺩⺪⺫⺬⺭⺮⺯⺰⺱⺲⺳⺴⺵⺶⺷⺸⺹⺺⺻⺼⺽⺾⺿⻀⻁⻂⻃⻄⻅⻆⻇⻈⻉⻊⻋⻌⻍⻎⻏⻐⻑⻒⻓⻔⻕⻖⻗⻘⻙⻚⻛⻜⻝⻞⻟⻠⻡⻢⻣⻤⻥⻦⻧⻨⻩⻪⻫⻬⻭⻮⻯⻰⻱⻲⻳⻴⻵⻶⻷⻸⻹⻺⻻⻼⻽⻾⻿⾀⾁⾂⾃⾄⾅⾆⾇⾈⾉⾊⾋⾌⾍⾎⾏⾐⾑⾒⾓⾔⾕⾖⾗⾘⾙⾚⾛⾜⾝⾞⾟⾠⾡⾢⾣⾤⾥⾦⾧⾨⾩⾪⾫⾬⾭⾮⾯⾰⾱⾲⾳⾴⾵⾶⾷⾸⾹⾺⾻⾼⾽⾾⾿⿀⿁⿂⿃⿄⿅⿆⿇⿈⿉⿊⿋⿌⿍⿎⿏⿐⿑⿒⿓⿔⿕⿖⿗⿘⿙⿚⿛⿜⿝⿞⿟⿠⿡⿢⿣⿤⿥⿦⿧⿨⿩⿪⿫⿬⿭⿮⿯⿰⿱⿲⿳⿴⿵⿶⿷⿸⿹⿺⿻⿼⿽⿾⿿むめもゃやゅゆょよらりるれろゎわゐゑをんゔゕゖ゗゘゙゚゛゜ゝゞゟ゠ァアィイゥウェエォオカガキギクグケゲコゴサザシジスズセゼソゾタダチヂッツヅテデトドナニヌネノハバパヒビピフブプヘベペホボポマミムメモャヤュユョヨラリルレロヮワヰヱヲンヴヵヶヷヸヹヺ・ーヽヾヿㆀㆁㆂㆃㆄㆅㆆㆇㆈㆉㆊㆋㆌㆍㆎ㆏㆐㆑㆒㆓㆔㆕㆖㆗㆘㆙㆚㆛㆜㆝㆞㆟ㆠㆡㆢㆣㆤㆥㆦㆧㆨㆩㆪㆫㆬㆭㆮㆯㆰㆱㆲㆳㆴㆵㆶㆷㆸㆹㆺㆻㆼㆽㆾㆿ㇀㇁㇂㇃㇄㇅㇆㇇㇈㇉㇊㇋㇌㇍㇎㇏㇐㇑㇒㇓㇔㇕㇖㇗㇘㇙㇚㇛㇜㇝㇞㇟㇠㇡㇢㇣㇤㇥㇦㇧㇨㇩㇪㇫㇬㇭㇮㇯ㇰㇱㇲㇳㇴㇵㇶㇷㇸㇹㇺㇻㇼㇽㇾㇿ㊀㊁㊂㊃㊄㊅㊆㊇㊈㊉㊊㊋㊌㊍㊎㊏㊐㊑㊒㊓㊔㊕㊖㊗㊘㊙㊚㊛㊜㊝㊞㊟㊠㊡㊢㊣㊤㊥㊦㊧㊨㊩㊪㊫㊬㊭㊮㊯㊰㊱㊲㊳㊴㊵㊶㊷㊸㊹㊺㊻㊼㊽㊾㊿㋀㋁㋂㋃㋄㋅㋆㋇㋈㋉㋊㋋㋌㋍㋎㋏㋐㋑㋒㋓㋔㋕㋖㋗㋘㋙㋚㋛㋜㋝㋞㋟㋠㋡㋢㋣㋤㋥㋦㋧㋨㋩㋪㋫㋬㋭㋮㋯㋰㋱㋲㋳㋴㋵㋶㋷㋸㋹㋺㋻㋼㋽㋾㋿㎀㎁㎂㎃㎄㎅㎆㎇㎈㎉㎊㎋㎌㎍㎎㎏㎐㎑㎒㎓㎔㎕㎖㎗㎘㎙㎚㎛㎜㎝㎞㎟㎠㎡㎢㎣㎤㎥㎦㎧㎨㎩㎪㎫㎬㎭㎮㎯㎰㎱㎲㎳㎴㎵㎶㎷㎸㎹㎺㎻㎼㎽㎾㎿㏀㏁㏂㏃㏄㏅㏆㏇㏈㏉㏊㏋㏌㏍㏎㏏㏐㏑㏒㏓㏔㏕㏖㏗㏘㏙㏚㏛㏜㏝㏞㏟㏠㏡㏢㏣㏤㏥㏦㏧㏨㏩㏪㏫㏬㏭㏮㏯㏰㏱㏲㏳㏴㏵㏶㏷㏸㏹㏺㏻㏼㏽㏾㏿㒀㒁㒂㒃㒄㒅㒆㒇㒈㒉㒊㒋㒌㒍㒎㒏㒐㒑㒒㒓㒔㒕㒖㒗㒘㒙㒚㒛㒜㒝㒞㒟㒠㒡㒢㒣㒤㒥㒦㒧㒨㒩㒪㒫㒬㒭㒮㒯㒰㒱㒲㒳㒴㒵㒶㒷㒸㒹㒺㒻㒼㒽㒾㒿㓀㓁㓂㓃㓄㓅㓆㓇㓈㓉㓊㓋㓌㓍㓎㓏㓐㓑㓒㓓㓔㓕㓖㓗㓘㓙㓚㓛㓜㓝㓞㓟㓠㓡㓢㓣㓤㓥㓦㓧㓨㓩㓪㓫㓬㓭㓮㓯㓰㓱㓲㓳㓴㓵㓶㓷㓸㓹㓺㓻㓼㓽㓾㓿㖀㖁㖂㖃㖄㖅㖆㖇㖈㖉㖊㖋㖌㖍㖎㖏㖐㖑㖒㖓㖔㖕㖖㖗㖘㖙㖚㖛㖜㖝㖞㖟㖠㖡㖢㖣㖤㖥㖦㖧㖨㖩㖪㖫㖬㖭㖮㖯㖰㖱㖲㖳㖴㖵㖶㖷㖸㖹㖺㖻㖼㖽㖾㖿㗀㗁㗂㗃㗄㗅㗆㗇㗈㗉㗊㗋㗌㗍㗎㗏㗐㗑㗒㗓㗔㗕㗖㗗㗘㗙㗚㗛㗜㗝㗞㗟㗠㗡㗢㗣㗤㗥㗦㗧㗨㗩㗪㗫㗬㗭㗮㗯㗰㗱㗲㗳㗴㗵㗶㗷㗸㗹㗺㗻㗼㗽㗾㗿㚀㚁㚂㚃㚄㚅㚆㚇㚈㚉㚊㚋㚌㚍㚎㚏㚐㚑㚒㚓㚔㚕㚖㚗㚘㚙㚚㚛㚜㚝㚞㚟㚠㚡㚢㚣㚤㚥㚦㚧㚨㚩㚪㚫㚬㚭㚮㚯㚰㚱㚲㚳㚴㚵㚶㚷㚸㚹㚺㚻㚼㚽㚾㚿㛀㛁㛂㛃㛄㛅㛆㛇㛈㛉㛊㛋㛌㛍㛎㛏㛐㛑㛒㛓㛔㛕㛖㛗㛘㛙㛚㛛㛜㛝㛞㛟㛠㛡㛢㛣㛤㛥㛦㛧㛨㛩㛪㛫㛬㛭㛮㛯㛰㛱㛲㛳㛴㛵㛶㛷㛸㛹㛺㛻㛼㛽㛾㛿㞀㞁㞂㞃㞄㞅㞆㞇㞈㞉㞊㞋㞌㞍㞎㞏㞐㞑㞒㞓㞔㞕㞖㞗㞘㞙㞚㞛㞜㞝㞞㞟㞠㞡㞢㞣㞤㞥㞦㞧㞨㞩㞪㞫㞬㞭㞮㞯㞰㞱㞲㞳㞴㞵㞶㞷㞸㞹㞺㞻㞼㞽㞾㞿㟀㟁㟂㟃㟄㟅㟆㟇㟈㟉㟊㟋㟌㟍㟎㟏㟐㟑㟒㟓㟔㟕㟖㟗㟘㟙㟚㟛㟜㟝㟞㟟㟠㟡㟢㟣㟤㟥㟦㟧㟨㟩㟪㟫㟬㟭㟮㟯㟰㟱㟲㟳㟴㟵㟶㟷㟸㟹㟺㟻㟼㟽㟾㟿㢀㢁㢂㢃㢄㢅㢆㢇㢈㢉㢊㢋㢌㢍㢎㢏㢐㢑㢒㢓㢔㢕㢖㢗㢘㢙㢚㢛㢜㢝㢞㢟㢠㢡㢢㢣㢤㢥㢦㢧㢨㢩㢪㢫㢬㢭㢮㢯㢰㢱㢲㢳㢴㢵㢶㢷㢸㢹㢺㢻㢼㢽㢾㢿㣀㣁㣂㣃㣄㣅㣆㣇㣈㣉㣊㣋㣌㣍㣎㣏㣐㣑㣒㣓㣔㣕㣖㣗㣘㣙㣚㣛㣜㣝㣞㣟㣠㣡㣢㣣㣤㣥㣦㣧㣨㣩㣪㣫㣬㣭㣮㣯㣰㣱㣲㣳㣴㣵㣶㣷㣸㣹㣺㣻㣼㣽㣾㣿㦀㦁㦂㦃㦄㦅㦆㦇㦈㦉㦊㦋㦌㦍㦎㦏㦐㦑㦒㦓㦔㦕㦖㦗㦘㦙㦚㦛㦜㦝㦞㦟㦠㦡㦢㦣㦤㦥㦦㦧㦨㦩㦪㦫㦬㦭㦮㦯㦰㦱㦲㦳㦴㦵㦶㦷㦸㦹㦺㦻㦼㦽㦾㦿㧀㧁㧂㧃㧄㧅㧆㧇㧈㧉㧊㧋㧌㧍㧎㧏㧐㧑㧒㧓㧔㧕㧖㧗㧘㧙㧚㧛㧜㧝㧞㧟㧠㧡㧢㧣㧤㧥㧦㧧㧨㧩㧪㧫㧬㧭㧮㧯㧰㧱㧲㧳㧴㧵㧶㧷㧸㧹㧺㧻㧼㧽㧾㧿㪀㪁㪂㪃㪄㪅㪆㪇㪈㪉㪊㪋㪌㪍㪎㪏㪐㪑㪒㪓㪔㪕㪖㪗㪘㪙㪚㪛㪜㪝㪞㪟㪠㪡㪢㪣㪤㪥㪦㪧㪨㪩㪪㪫㪬㪭㪮㪯㪰㪱㪲㪳㪴㪵㪶㪷㪸㪹㪺㪻㪼㪽㪾㪿㫀㫁㫂㫃㫄㫅㫆㫇㫈㫉㫊㫋㫌㫍㫎㫏㫐㫑㫒㫓㫔㫕㫖㫗㫘㫙㫚㫛㫜㫝㫞㫟㫠㫡㫢㫣㫤㫥㫦㫧㫨㫩㫪㫫㫬㫭㫮㫯㫰㫱㫲㫳㫴㫵㫶㫷㫸㫹㫺㫻㫼㫽㫾㫿㮀㮁㮂㮃㮄㮅㮆㮇㮈㮉㮊㮋㮌㮍㮎㮏㮐㮑㮒㮓㮔㮕㮖㮗㮘㮙㮚㮛㮜㮝㮞㮟㮠㮡㮢㮣㮤㮥㮦㮧㮨㮩㮪㮫㮬㮭㮮㮯㮰㮱㮲㮳㮴㮵㮶㮷㮸㮹㮺㮻㮼㮽㮾㮿㯀㯁㯂㯃㯄㯅㯆㯇㯈㯉㯊㯋㯌㯍㯎㯏㯐㯑㯒㯓㯔㯕㯖㯗㯘㯙㯚㯛㯜㯝㯞㯟㯠㯡㯢㯣㯤㯥㯦㯧㯨㯩㯪㯫㯬㯭㯮㯯㯰㯱㯲㯳㯴㯵㯶㯷㯸㯹㯺㯻㯼㯽㯾㯿㲀㲁㲂㲃㲄㲅㲆㲇㲈㲉㲊㲋㲌㲍㲎㲏㲐㲑㲒㲓㲔㲕㲖㲗㲘㲙㲚㲛㲜㲝㲞㲟㲠㲡㲢㲣㲤㲥㲦㲧㲨㲩㲪㲫㲬㲭㲮㲯㲰㲱㲲㲳㲴㲵㲶㲷㲸㲹㲺㲻㲼㲽㲾㲿㳀㳁㳂㳃㳄㳅㳆㳇㳈㳉㳊㳋㳌㳍㳎㳏㳐㳑㳒㳓㳔㳕㳖㳗㳘㳙㳚㳛㳜㳝㳞㳟㳠㳡㳢㳣㳤㳥㳦㳧㳨㳩㳪㳫㳬㳭㳮㳯㳰㳱㳲㳳㳴㳵㳶㳷㳸㳹㳺㳻㳼㳽㳾㳿㶀㶁㶂㶃㶄㶅㶆㶇㶈㶉㶊㶋㶌㶍㶎㶏㶐㶑㶒㶓㶔㶕㶖㶗㶘㶙㶚㶛㶜㶝㶞㶟㶠㶡㶢㶣㶤㶥㶦㶧㶨㶩㶪㶫㶬㶭㶮㶯㶰㶱㶲㶳㶴㶵㶶㶷㶸㶹㶺㶻㶼㶽㶾㶿㷀㷁㷂㷃㷄㷅㷆㷇㷈㷉㷊㷋㷌㷍㷎㷏㷐㷑㷒㷓㷔㷕㷖㷗㷘㷙㷚㷛㷜㷝㷞㷟㷠㷡㷢㷣㷤㷥㷦㷧㷨㷩㷪㷫㷬㷭㷮㷯㷰㷱㷲㷳㷴㷵㷶㷷㷸㷹㷺㷻㷼㷽㷾㷿㺀㺁㺂㺃㺄㺅㺆㺇㺈㺉㺊㺋㺌㺍㺎㺏㺐㺑㺒㺓㺔㺕㺖㺗㺘㺙㺚㺛㺜㺝㺞㺟㺠㺡㺢㺣㺤㺥㺦㺧㺨㺩㺪㺫㺬㺭㺮㺯㺰㺱㺲㺳㺴㺵㺶㺷㺸㺹㺺㺻㺼㺽㺾㺿㻀㻁㻂㻃㻄㻅㻆㻇㻈㻉㻊㻋㻌㻍㻎㻏㻐㻑㻒㻓㻔㻕㻖㻗㻘㻙㻚㻛㻜㻝㻞㻟㻠㻡㻢㻣㻤㻥㻦㻧㻨㻩㻪㻫㻬㻭㻮㻯㻰㻱㻲㻳㻴㻵㻶㻷㻸㻹㻺㻻㻼㻽㻾㻿㾀㾁㾂㾃㾄㾅㾆㾇㾈㾉㾊㾋㾌㾍㾎㾏㾐㾑㾒㾓㾔㾕㾖㾗㾘㾙㾚㾛㾜㾝㾞㾟㾠㾡㾢㾣㾤㾥㾦㾧㾨㾩㾪㾫㾬㾭㾮㾯㾰㾱㾲㾳㾴㾵㾶㾷㾸㾹㾺㾻㾼㾽㾾㾿㿀㿁㿂㿃㿄㿅㿆㿇㿈㿉㿊㿋㿌㿍㿎㿏㿐㿑㿒㿓㿔㿕㿖㿗㿘㿙㿚㿛㿜㿝㿞㿟㿠㿡㿢㿣㿤㿥㿦㿧㿨㿩㿪㿫㿬㿭㿮㿯㿰㿱㿲㿳㿴㿵㿶㿷㿸㿹㿺㿻㿼㿽㿾㿿䂀䂁䂂䂃䂄䂅䂆䂇䂈䂉䂊䂋䂌䂍䂎䂏䂐䂑䂒䂓䂔䂕䂖䂗䂘䂙䂚䂛䂜䂝䂞䂟䂠䂡䂢䂣䂤䂥䂦䂧䂨䂩䂪䂫䂬䂭䂮䂯䂰䂱䂲䂳䂴䂵䂶䂷䂸䂹䂺䂻䂼䂽䂾䂿䃀䃁䃂䃃䃄䃅䃆䃇䃈䃉䃊䃋䃌䃍䃎䃏䃐䃑䃒䃓䃔䃕䃖䃗䃘䃙䃚䃛䃜䃝䃞䃟䃠䃡䃢䃣䃤䃥䃦䃧䃨䃩䃪䃫䃬䃭䃮䃯䃰䃱䃲䃳䃴䃵䃶䃷䃸䃹䃺䃻䃼䃽䃾䃿䆀䆁䆂䆃䆄䆅䆆䆇䆈䆉䆊䆋䆌䆍䆎䆏䆐䆑䆒䆓䆔䆕䆖䆗䆘䆙䆚䆛䆜䆝䆞䆟䆠䆡䆢䆣䆤䆥䆦䆧䆨䆩䆪䆫䆬䆭䆮䆯䆰䆱䆲䆳䆴䆵䆶䆷䆸䆹䆺䆻䆼䆽䆾䆿䇀䇁䇂䇃䇄䇅䇆䇇䇈䇉䇊䇋䇌䇍䇎䇏䇐䇑䇒䇓䇔䇕䇖䇗䇘䇙䇚䇛䇜䇝䇞䇟䇠䇡䇢䇣䇤䇥䇦䇧䇨䇩䇪䇫䇬䇭䇮䇯䇰䇱䇲䇳䇴䇵䇶䇷䇸䇹䇺䇻䇼䇽䇾䇿䊀䊁䊂䊃䊄䊅䊆䊇䊈䊉䊊䊋䊌䊍䊎䊏䊐䊑䊒䊓䊔䊕䊖䊗䊘䊙䊚䊛䊜䊝䊞䊟䊠䊡䊢䊣䊤䊥䊦䊧䊨䊩䊪䊫䊬䊭䊮䊯䊰䊱䊲䊳䊴䊵䊶䊷䊸䊹䊺䊻䊼䊽䊾䊿䋀䋁䋂䋃䋄䋅䋆䋇䋈䋉䋊䋋䋌䋍䋎䋏䋐䋑䋒䋓䋔䋕䋖䋗䋘䋙䋚䋛䋜䋝䋞䋟䋠䋡䋢䋣䋤䋥䋦䋧䋨䋩䋪䋫䋬䋭䋮䋯䋰䋱䋲䋳䋴䋵䋶䋷䋸䋹䋺䋻䋼䋽䋾䋿䎀䎁䎂䎃䎄䎅䎆䎇䎈䎉䎊䎋䎌䎍䎎䎏䎐䎑䎒䎓䎔䎕䎖䎗䎘䎙䎚䎛䎜䎝䎞䎟䎠䎡䎢䎣䎤䎥䎦䎧䎨䎩䎪䎫䎬䎭䎮䎯䎰䎱䎲䎳䎴䎵䎶䎷䎸䎹䎺䎻䎼䎽䎾䎿䏀䏁䏂䏃䏄䏅䏆䏇䏈䏉䏊䏋䏌䏍䏎䏏䏐䏑䏒䏓䏔䏕䏖䏗䏘䏙䏚䏛䏜䏝䏞䏟䏠䏡䏢䏣䏤䏥䏦䏧䏨䏩䏪䏫䏬䏭䏮䏯䏰䏱䏲䏳䏴䏵䏶䏷䏸䏹䏺䏻䏼䏽䏾䏿䒀䒁䒂䒃䒄䒅䒆䒇䒈䒉䒊䒋䒌䒍䒎䒏䒐䒑䒒䒓䒔䒕䒖䒗䒘䒙䒚䒛䒜䒝䒞䒟䒠䒡䒢䒣䒤䒥䒦䒧䒨䒩䒪䒫䒬䒭䒮䒯䒰䒱䒲䒳䒴䒵䒶䒷䒸䒹䒺䒻䒼䒽䒾䒿䓀䓁䓂䓃䓄䓅䓆䓇䓈䓉䓊䓋䓌䓍䓎䓏䓐䓑䓒䓓䓔䓕䓖䓗䓘䓙䓚䓛䓜䓝䓞䓟䓠䓡䓢䓣䓤䓥䓦䓧䓨䓩䓪䓫䓬䓭䓮䓯䓰䓱䓲䓳䓴䓵䓶䓷䓸䓹䓺䓻䓼䓽䓾䓿䖀䖁䖂䖃䖄䖅䖆䖇䖈䖉䖊䖋䖌䖍䖎䖏䖐䖑䖒䖓䖔䖕䖖䖗䖘䖙䖚䖛䖜䖝䖞䖟䖠䖡䖢䖣䖤䖥䖦䖧䖨䖩䖪䖫䖬䖭䖮䖯䖰䖱䖲䖳䖴䖵䖶䖷䖸䖹䖺䖻䖼䖽䖾䖿䗀䗁䗂䗃䗄䗅䗆䗇䗈䗉䗊䗋䗌䗍䗎䗏䗐䗑䗒䗓䗔䗕䗖䗗䗘䗙䗚䗛䗜䗝䗞䗟䗠䗡䗢䗣䗤䗥䗦䗧䗨䗩䗪䗫䗬䗭䗮䗯䗰䗱䗲䗳䗴䗵䗶䗷䗸䗹䗺䗻䗼䗽䗾䗿䚀䚁䚂䚃䚄䚅䚆䚇䚈䚉䚊䚋䚌䚍䚎䚏䚐䚑䚒䚓䚔䚕䚖䚗䚘䚙䚚䚛䚜䚝䚞䚟䚠䚡䚢䚣䚤䚥䚦䚧䚨䚩䚪䚫䚬䚭䚮䚯䚰䚱䚲䚳䚴䚵䚶䚷䚸䚹䚺䚻䚼䚽䚾䚿䛀䛁䛂䛃䛄䛅䛆䛇䛈䛉䛊䛋䛌䛍䛎䛏䛐䛑䛒䛓䛔䛕䛖䛗䛘䛙䛚䛛䛜䛝䛞䛟䛠䛡䛢䛣䛤䛥䛦䛧䛨䛩䛪䛫䛬䛭䛮䛯䛰䛱䛲䛳䛴䛵䛶䛷䛸䛹䛺䛻䛼䛽䛾䛿䞀䞁䞂䞃䞄䞅䞆䞇䞈䞉䞊䞋䞌䞍䞎䞏䞐䞑䞒䞓䞔䞕䞖䞗䞘䞙䞚䞛䞜䞝䞞䞟䞠䞡䞢䞣䞤䞥䞦䞧䞨䞩䞪䞫䞬䞭䞮䞯䞰䞱䞲䞳䞴䞵䞶䞷䞸䞹䞺䞻䞼䞽䞾䞿䟀䟁䟂䟃䟄䟅䟆䟇䟈䟉䟊䟋䟌䟍䟎䟏䟐䟑䟒䟓䟔䟕䟖䟗䟘䟙䟚䟛䟜䟝䟞䟟䟠䟡䟢䟣䟤䟥䟦䟧䟨䟩䟪䟫䟬䟭䟮䟯䟰䟱䟲䟳䟴䟵䟶䟷䟸䟹䟺䟻䟼䟽䟾䟿䢀䢁䢂䢃䢄䢅䢆䢇䢈䢉䢊䢋䢌䢍䢎䢏䢐䢑䢒䢓䢔䢕䢖䢗䢘䢙䢚䢛䢜䢝䢞䢟䢠䢡䢢䢣䢤䢥䢦䢧䢨䢩䢪䢫䢬䢭䢮䢯䢰䢱䢲䢳䢴䢵䢶䢷䢸䢹䢺䢻䢼䢽䢾䢿䣀䣁䣂䣃䣄䣅䣆䣇䣈䣉䣊䣋䣌䣍䣎䣏䣐䣑䣒䣓䣔䣕䣖䣗䣘䣙䣚䣛䣜䣝䣞䣟䣠䣡䣢䣣䣤䣥䣦䣧䣨䣩䣪䣫䣬䣭䣮䣯䣰䣱䣲䣳䣴䣵䣶䣷䣸䣹䣺䣻䣼䣽䣾䣿䦀䦁䦂䦃䦄䦅䦆䦇䦈䦉䦊䦋䦌䦍䦎䦏䦐䦑䦒䦓䦔䦕䦖䦗䦘䦙䦚䦛䦜䦝䦞䦟䦠䦡䦢䦣䦤䦥䦦䦧䦨䦩䦪䦫䦬䦭䦮䦯䦰䦱䦲䦳䦴䦵䦶䦷䦸䦹䦺䦻䦼䦽䦾䦿䧀䧁䧂䧃䧄䧅䧆䧇䧈䧉䧊䧋䧌䧍䧎䧏䧐䧑䧒䧓䧔䧕䧖䧗䧘䧙䧚䧛䧜䧝䧞䧟䧠䧡䧢䧣䧤䧥䧦䧧䧨䧩䧪䧫䧬䧭䧮䧯䧰䧱䧲䧳䧴䧵䧶䧷䧸䧹䧺䧻䧼䧽䧾䧿䪀䪁䪂䪃䪄䪅䪆䪇䪈䪉䪊䪋䪌䪍䪎䪏䪐䪑䪒䪓䪔䪕䪖䪗䪘䪙䪚䪛䪜䪝䪞䪟䪠䪡䪢䪣䪤䪥䪦䪧䪨䪩䪪䪫䪬䪭䪮䪯䪰䪱䪲䪳䪴䪵䪶䪷䪸䪹䪺䪻䪼䪽䪾䪿䫀䫁䫂䫃䫄䫅䫆䫇䫈䫉䫊䫋䫌䫍䫎䫏䫐䫑䫒䫓䫔䫕䫖䫗䫘䫙䫚䫛䫜䫝䫞䫟䫠䫡䫢䫣䫤䫥䫦䫧䫨䫩䫪䫫䫬䫭䫮䫯䫰䫱䫲䫳䫴䫵䫶䫷䫸䫹䫺䫻䫼䫽䫾䫿䮀䮁䮂䮃䮄䮅䮆䮇䮈䮉䮊䮋䮌䮍䮎䮏䮐䮑䮒䮓䮔䮕䮖䮗䮘䮙䮚䮛䮜䮝䮞䮟䮠䮡䮢䮣䮤䮥䮦䮧䮨䮩䮪䮫䮬䮭䮮䮯䮰䮱䮲䮳䮴䮵䮶䮷䮸䮹䮺䮻䮼䮽䮾䮿䯀䯁䯂䯃䯄䯅䯆䯇䯈䯉䯊䯋䯌䯍䯎䯏䯐䯑䯒䯓䯔䯕䯖䯗䯘䯙䯚䯛䯜䯝䯞䯟䯠䯡䯢䯣䯤䯥䯦䯧䯨䯩䯪䯫䯬䯭䯮䯯䯰䯱䯲䯳䯴䯵䯶䯷䯸䯹䯺䯻䯼䯽䯾䯿䲀䲁䲂䲃䲄䲅䲆䲇䲈䲉䲊䲋䲌䲍䲎䲏䲐䲑䲒䲓䲔䲕䲖䲗䲘䲙䲚䲛䲜䲝䲞䲟䲠䲡䲢䲣䲤䲥䲦䲧䲨䲩䲪䲫䲬䲭䲮䲯䲰䲱䲲䲳䲴䲵䲶䲷䲸䲹䲺䲻䲼䲽䲾䲿䳀䳁䳂䳃䳄䳅䳆䳇䳈䳉䳊䳋䳌䳍䳎䳏䳐䳑䳒䳓䳔䳕䳖䳗䳘䳙䳚䳛䳜䳝䳞䳟䳠䳡䳢䳣䳤䳥䳦䳧䳨䳩䳪䳫䳬䳭䳮䳯䳰䳱䳲䳳䳴䳵䳶䳷䳸䳹䳺䳻䳼䳽䳾䳿䶀䶁䶂䶃䶄䶅䶆䶇䶈䶉䶊䶋䶌䶍䶎䶏䶐䶑䶒䶓䶔䶕䶖䶗䶘䶙䶚䶛䶜䶝䶞䶟䶠䶡䶢䶣䶤䶥䶦䶧䶨䶩䶪䶫䶬䶭䶮䶯䶰䶱䶲䶳䶴䶵䶶䶷䶸䶹䶺䶻䶼䶽䶾䶿䷀䷁䷂䷃䷄䷅䷆䷇䷈䷉䷊䷋䷌䷍䷎䷏䷐䷑䷒䷓䷔䷕䷖䷗䷘䷙䷚䷛䷜䷝䷞䷟䷠䷡䷢䷣䷤䷥䷦䷧䷨䷩䷪䷫䷬䷭䷮䷯䷰䷱䷲䷳䷴䷵䷶䷷䷸䷹䷺䷻䷼䷽䷾䷿亀亁亂亃亄亅了亇予争亊事二亍于亏亐云互亓五井亖亗亘亙亚些亜亝亞亟亠亡亢亣交亥亦产亨亩亪享京亭亮亯亰亱亲亳亴亵亶亷亸亹人亻亼亽亾亿什仁仂仃仄仅仆仇仈仉今介仌仍从仏仐仑仒仓仔仕他仗付仙仚仛仜仝仞仟仠仡仢代令以仦仧仨仩仪仫们仭仮仯仰仱仲仳仴仵件价仸仹仺任仼份仾仿侀侁侂侃侄侅來侇侈侉侊例侌侍侎侏侐侑侒侓侔侕侖侗侘侙侚供侜依侞侟侠価侢侣侤侥侦侧侨侩侪侫侬侭侮侯侰侱侲侳侴侵侶侷侸侹侺侻侼侽侾便俀俁係促俄俅俆俇俈俉俊俋俌俍俎俏俐俑俒俓俔俕俖俗俘俙俚俛俜保俞俟俠信俢俣俤俥俦俧俨俩俪俫俬俭修俯俰俱俲俳俴俵俶俷俸俹俺俻俼俽俾俿傀傁傂傃傄傅傆傇傈傉傊傋傌傍傎傏傐傑傒傓傔傕傖傗傘備傚傛傜傝傞傟傠傡傢傣傤傥傦傧储傩傪傫催傭傮傯傰傱傲傳傴債傶傷傸傹傺傻傼傽傾傿僀僁僂僃僄僅僆僇僈僉僊僋僌働僎像僐僑僒僓僔僕僖僗僘僙僚僛僜僝僞僟僠僡僢僣僤僥僦僧僨僩僪僫僬僭僮僯僰僱僲僳僴僵僶僷僸價僺僻僼僽僾僿冀冁冂冃冄内円冇冈冉冊冋册再冎冏冐冑冒冓冔冕冖冗冘写冚军农冝冞冟冠冡冢冣冤冥冦冧冨冩冪冫冬冭冮冯冰冱冲决冴况冶冷冸冹冺冻冼冽冾冿净凁凂凃凄凅准凇凈凉凊凋凌凍凎减凐凑凒凓凔凕凖凗凘凙凚凛凜凝凞凟几凡凢凣凤凥処凧凨凩凪凫凬凭凮凯凰凱凲凳凴凵凶凷凸凹出击凼函凾凿劀劁劂劃劄劅劆劇劈劉劊劋劌劍劎劏劐劑劒劓劔劕劖劗劘劙劚力劜劝办功加务劢劣劤劥劦劧动助努劫劬劭劮劯劰励劲劳労劵劶劷劸効劺劻劼劽劾势勀勁勂勃勄勅勆勇勈勉勊勋勌勍勎勏勐勑勒勓勔動勖勗勘務勚勛勜勝勞募勠勡勢勣勤勥勦勧勨勩勪勫勬勭勮勯勰勱勲勳勴勵勶勷勸勹勺勻勼勽勾勿厀厁厂厃厄厅历厇厈厉厊压厌厍厎厏厐厑厒厓厔厕厖厗厘厙厚厛厜厝厞原厠厡厢厣厤厥厦厧厨厩厪厫厬厭厮厯厰厱厲厳厴厵厶厷厸厹厺去厼厽厾县叀叁参參叄叅叆叇又叉及友双反収叏叐发叒叓叔叕取受变叙叚叛叜叝叞叟叠叡叢口古句另叧叨叩只叫召叭叮可台叱史右叴叵叶号司叹叺叻叼叽叾叿咀咁咂咃咄咅咆咇咈咉咊咋和咍咎咏咐咑咒咓咔咕咖咗咘咙咚咛咜咝咞咟咠咡咢咣咤咥咦咧咨咩咪咫咬咭咮咯咰咱咲咳咴咵咶咷咸咹咺咻咼咽咾咿哀品哂哃哄哅哆哇哈哉哊哋哌响哎哏哐哑哒哓哔哕哖哗哘哙哚哛哜哝哞哟哠員哢哣哤哥哦哧哨哩哪哫哬哭哮哯哰哱哲哳哴哵哶哷哸哹哺哻哼哽哾哿喀喁喂喃善喅喆喇喈喉喊喋喌喍喎喏喐喑喒喓喔喕喖喗喘喙喚喛喜喝喞喟喠喡喢喣喤喥喦喧喨喩喪喫喬喭單喯喰喱喲喳喴喵営喷喸喹喺喻喼喽喾喿嗀嗁嗂嗃嗄嗅嗆嗇嗈嗉嗊嗋嗌嗍嗎嗏嗐嗑嗒嗓嗔嗕嗖嗗嗘嗙嗚嗛嗜嗝嗞嗟嗠嗡嗢嗣嗤嗥嗦嗧嗨嗩嗪嗫嗬嗭嗮嗯嗰嗱嗲嗳嗴嗵嗶嗷嗸嗹嗺嗻嗼嗽嗾嗿嚀嚁嚂嚃嚄嚅嚆嚇嚈嚉嚊嚋嚌嚍嚎嚏嚐嚑嚒嚓嚔嚕嚖嚗嚘嚙嚚嚛嚜嚝嚞嚟嚠嚡嚢嚣嚤嚥嚦嚧嚨嚩嚪嚫嚬嚭嚮嚯嚰嚱嚲嚳嚴嚵嚶嚷嚸嚹嚺嚻嚼嚽嚾嚿囀囁囂囃囄囅囆囇囈囉囊囋囌囍囎囏囐囑囒囓囔囕囖囗囘囙囚四囜囝回囟因囡团団囤囥囦囧囨囩囪囫囬园囮囯困囱囲図围囵囶囷囸囹固囻囼国图囿垀垁垂垃垄垅垆垇垈垉垊型垌垍垎垏垐垑垒垓垔垕垖垗垘垙垚垛垜垝垞垟垠垡垢垣垤垥垦垧垨垩垪垫垬垭垮垯垰垱垲垳垴垵垶垷垸垹垺垻垼垽垾垿埀埁埂埃埄埅埆埇埈埉埊埋埌埍城埏埐埑埒埓埔埕埖埗埘埙埚埛埜埝埞域埠埡埢埣埤埥埦埧埨埩埪埫埬埭埮埯埰埱埲埳埴埵埶執埸培基埻埼埽埾埿墀墁墂境墄墅墆墇墈墉墊墋墌墍墎墏墐墑墒墓墔墕墖増墘墙墚墛墜墝增墟墠墡墢墣墤墥墦墧墨墩墪墫墬墭墮墯墰墱墲墳墴墵墶墷墸墹墺墻墼墽墾墿壀壁壂壃壄壅壆壇壈壉壊壋壌壍壎壏壐壑壒壓壔壕壖壗壘壙壚壛壜壝壞壟壠壡壢壣壤壥壦壧壨壩壪士壬壭壮壯声壱売壳壴壵壶壷壸壹壺壻壼壽壾壿妀妁如妃妄妅妆妇妈妉妊妋妌妍妎妏妐妑妒妓妔妕妖妗妘妙妚妛妜妝妞妟妠妡妢妣妤妥妦妧妨妩妪妫妬妭妮妯妰妱妲妳妴妵妶妷妸妹妺妻妼妽妾妿姀姁姂姃姄姅姆姇姈姉姊始姌姍姎姏姐姑姒姓委姕姖姗姘姙姚姛姜姝姞姟姠姡姢姣姤姥姦姧姨姩姪姫姬姭姮姯姰姱姲姳姴姵姶姷姸姹姺姻姼姽姾姿媀媁媂媃媄媅媆媇媈媉媊媋媌媍媎媏媐媑媒媓媔媕媖媗媘媙媚媛媜媝媞媟媠媡媢媣媤媥媦媧媨媩媪媫媬媭媮媯媰媱媲媳媴媵媶媷媸媹媺媻媼媽媾媿嫀嫁嫂嫃嫄嫅嫆嫇嫈嫉嫊嫋嫌嫍嫎嫏嫐嫑嫒嫓嫔嫕嫖嫗嫘嫙嫚嫛嫜嫝嫞嫟嫠嫡嫢嫣嫤嫥嫦嫧嫨嫩嫪嫫嫬嫭嫮嫯嫰嫱嫲嫳嫴嫵嫶嫷嫸嫹嫺嫻嫼嫽嫾嫿宀宁宂它宄宅宆宇守安宊宋完宍宎宏宐宑宒宓宔宕宖宗官宙定宛宜宝实実宠审客宣室宥宦宧宨宩宪宫宬宭宮宯宰宱宲害宴宵家宷宸容宺宻宼宽宾宿寀寁寂寃寄寅密寇寈寉寊寋富寍寎寏寐寑寒寓寔寕寖寗寘寙寚寛寜寝寞察寠寡寢寣寤寥實寧寨審寪寫寬寭寮寯寰寱寲寳寴寵寶寷寸对寺寻导寽対寿岀岁岂岃岄岅岆岇岈岉岊岋岌岍岎岏岐岑岒岓岔岕岖岗岘岙岚岛岜岝岞岟岠岡岢岣岤岥岦岧岨岩岪岫岬岭岮岯岰岱岲岳岴岵岶岷岸岹岺岻岼岽岾岿峀峁峂峃峄峅峆峇峈峉峊峋峌峍峎峏峐峑峒峓峔峕峖峗峘峙峚峛峜峝峞峟峠峡峢峣峤峥峦峧峨峩峪峫峬峭峮峯峰峱峲峳峴峵島峷峸峹峺峻峼峽峾峿嶀嶁嶂嶃嶄嶅嶆嶇嶈嶉嶊嶋嶌嶍嶎嶏嶐嶑嶒嶓嶔嶕嶖嶗嶘嶙嶚嶛嶜嶝嶞嶟嶠嶡嶢嶣嶤嶥嶦嶧嶨嶩嶪嶫嶬嶭嶮嶯嶰嶱嶲嶳嶴嶵嶶嶷嶸嶹嶺嶻嶼嶽嶾嶿巀巁巂巃巄巅巆巇巈巉巊巋巌巍巎巏巐巑巒巓巔巕巖巗巘巙巚巛巜川州巟巠巡巢巣巤工左巧巨巩巪巫巬巭差巯巰己已巳巴巵巶巷巸巹巺巻巼巽巾巿庀庁庂広庄庅庆庇庈庉床庋庌庍庎序庐庑庒库应底庖店庘庙庚庛府庝庞废庠庡庢庣庤庥度座庨庩庪庫庬庭庮庯庰庱庲庳庴庵庶康庸庹庺庻庼庽庾庿廀廁廂廃廄廅廆廇廈廉廊廋廌廍廎廏廐廑廒廓廔廕廖廗廘廙廚廛廜廝廞廟廠廡廢廣廤廥廦廧廨廩廪廫廬廭廮廯廰廱廲廳廴廵延廷廸廹建廻廼廽廾廿往征徂徃径待徆徇很徉徊律後徍徎徏徐徑徒従徔徕徖得徘徙徚徛徜徝從徟徠御徢徣徤徥徦徧徨復循徫徬徭微徯徰徱徲徳徴徵徶德徸徹徺徻徼徽徾徿忀忁忂心忄必忆忇忈忉忊忋忌忍忎忏忐忑忒忓忔忕忖志忘忙忚忛応忝忞忟忠忡忢忣忤忥忦忧忨忩忪快忬忭忮忯忰忱忲忳忴念忶忷忸忹忺忻忼忽忾忿悀悁悂悃悄悅悆悇悈悉悊悋悌悍悎悏悐悑悒悓悔悕悖悗悘悙悚悛悜悝悞悟悠悡悢患悤悥悦悧您悩悪悫悬悭悮悯悰悱悲悳悴悵悶悷悸悹悺悻悼悽悾悿惀惁惂惃惄情惆惇惈惉惊惋惌惍惎惏惐惑惒惓惔惕惖惗惘惙惚惛惜惝惞惟惠惡惢惣惤惥惦惧惨惩惪惫惬惭惮惯惰惱惲想惴惵惶惷惸惹惺惻惼惽惾惿憀憁憂憃憄憅憆憇憈憉憊憋憌憍憎憏憐憑憒憓憔憕憖憗憘憙憚憛憜憝憞憟憠憡憢憣憤憥憦憧憨憩憪憫憬憭憮憯憰憱憲憳憴憵憶憷憸憹憺憻憼憽憾憿懀懁懂懃懄懅懆懇懈應懊懋懌懍懎懏懐懑懒懓懔懕懖懗懘懙懚懛懜懝懞懟懠懡懢懣懤懥懦懧懨懩懪懫懬懭懮懯懰懱懲懳懴懵懶懷懸懹懺懻懼懽懾懿技抁抂抃抄抅抆抇抈抉把抋抌抍抎抏抐抑抒抓抔投抖抗折抙抚抛抜抝択抟抠抡抢抣护报抦抧抨抩抪披抬抭抮抯抰抱抲抳抴抵抶抷抸抹抺抻押抽抾抿拀拁拂拃拄担拆拇拈拉拊拋拌拍拎拏拐拑拒拓拔拕拖拗拘拙拚招拜拝拞拟拠拡拢拣拤拥拦拧拨择拪拫括拭拮拯拰拱拲拳拴拵拶拷拸拹拺拻拼拽拾拿掀掁掂掃掄掅掆掇授掉掊掋掌掍掎掏掐掑排掓掔掕掖掗掘掙掚掛掜掝掞掟掠採探掣掤接掦控推掩措掫掬掭掮掯掰掱掲掳掴掵掶掷掸掹掺掻掼掽掾掿揀揁揂揃揄揅揆揇揈揉揊揋揌揍揎描提揑插揓揔揕揖揗揘揙揚換揜揝揞揟揠握揢揣揤揥揦揧揨揩揪揫揬揭揮揯揰揱揲揳援揵揶揷揸揹揺揻揼揽揾揿撀撁撂撃撄撅撆撇撈撉撊撋撌撍撎撏撐撑撒撓撔撕撖撗撘撙撚撛撜撝撞撟撠撡撢撣撤撥撦撧撨撩撪撫撬播撮撯撰撱撲撳撴撵撶撷撸撹撺撻撼撽撾撿擀擁擂擃擄擅擆擇擈擉擊擋擌操擎擏擐擑擒擓擔擕擖擗擘擙據擛擜擝擞擟擠擡擢擣擤擥擦擧擨擩擪擫擬擭擮擯擰擱擲擳擴擵擶擷擸擹擺擻擼擽擾擿斀斁斂斃斄斅斆文斈斉斊斋斌斍斎斏斐斑斒斓斔斕斖斗斘料斚斛斜斝斞斟斠斡斢斣斤斥斦斧斨斩斪斫斬断斮斯新斱斲斳斴斵斶斷斸方斺斻於施斾斿旀旁旂旃旄旅旆旇旈旉旊旋旌旍旎族旐旑旒旓旔旕旖旗旘旙旚旛旜旝旞旟无旡既旣旤日旦旧旨早旪旫旬旭旮旯旰旱旲旳旴旵时旷旸旹旺旻旼旽旾旿暀暁暂暃暄暅暆暇暈暉暊暋暌暍暎暏暐暑暒暓暔暕暖暗暘暙暚暛暜暝暞暟暠暡暢暣暤暥暦暧暨暩暪暫暬暭暮暯暰暱暲暳暴暵暶暷暸暹暺暻暼暽暾暿曀曁曂曃曄曅曆曇曈曉曊曋曌曍曎曏曐曑曒曓曔曕曖曗曘曙曚曛曜曝曞曟曠曡曢曣曤曥曦曧曨曩曪曫曬曭曮曯曰曱曲曳更曵曶曷書曹曺曻曼曽曾替枀极枂枃构枅枆枇枈枉枊枋枌枍枎枏析枑枒枓枔枕枖林枘枙枚枛果枝枞枟枠枡枢枣枤枥枦枧枨枩枪枫枬枭枮枯枰枱枲枳枴枵架枷枸枹枺枻枼枽枾枿柀柁柂柃柄柅柆柇柈柉柊柋柌柍柎柏某柑柒染柔柕柖柗柘柙柚柛柜柝柞柟柠柡柢柣柤查柦柧柨柩柪柫柬柭柮柯柰柱柲柳柴柵柶柷柸柹柺査柼柽柾柿梀梁梂梃梄梅梆梇梈梉梊梋梌梍梎梏梐梑梒梓梔梕梖梗梘梙梚梛梜條梞梟梠梡梢梣梤梥梦梧梨梩梪梫梬梭梮梯械梱梲梳梴梵梶梷梸梹梺梻梼梽梾梿检棁棂棃棄棅棆棇棈棉棊棋棌棍棎棏棐棑棒棓棔棕棖棗棘棙棚棛棜棝棞棟棠棡棢棣棤棥棦棧棨棩棪棫棬棭森棯棰棱棲棳棴棵棶棷棸棹棺棻棼棽棾棿榀榁概榃榄榅榆榇榈榉榊榋榌榍榎榏榐榑榒榓榔榕榖榗榘榙榚榛榜榝榞榟榠榡榢榣榤榥榦榧榨榩榪榫榬榭榮榯榰榱榲榳榴榵榶榷榸榹榺榻榼榽榾榿槀槁槂槃槄槅槆槇槈槉槊構槌槍槎槏槐槑槒槓槔槕槖槗様槙槚槛槜槝槞槟槠槡槢槣槤槥槦槧槨槩槪槫槬槭槮槯槰槱槲槳槴槵槶槷槸槹槺槻槼槽槾槿檀檁檂檃檄檅檆檇檈檉檊檋檌檍檎檏檐檑檒檓檔檕檖檗檘檙檚檛檜檝檞檟檠檡檢檣檤檥檦檧檨檩檪檫檬檭檮檯檰檱檲檳檴檵檶檷檸檹檺檻檼檽檾檿櫀櫁櫂櫃櫄櫅櫆櫇櫈櫉櫊櫋櫌櫍櫎櫏櫐櫑櫒櫓櫔櫕櫖櫗櫘櫙櫚櫛櫜櫝櫞櫟櫠櫡櫢櫣櫤櫥櫦櫧櫨櫩櫪櫫櫬櫭櫮櫯櫰櫱櫲櫳櫴櫵櫶櫷櫸櫹櫺櫻櫼櫽櫾櫿殀殁殂殃殄殅殆殇殈殉殊残殌殍殎殏殐殑殒殓殔殕殖殗殘殙殚殛殜殝殞殟殠殡殢殣殤殥殦殧殨殩殪殫殬殭殮殯殰殱殲殳殴段殶殷殸殹殺殻殼殽殾殿毀毁毂毃毄毅毆毇毈毉毊毋毌母毎每毐毑毒毓比毕毖毗毘毙毚毛毜毝毞毟毠毡毢毣毤毥毦毧毨毩毪毫毬毭毮毯毰毱毲毳毴毵毶毷毸毹毺毻毼毽毾毿沀沁沂沃沄沅沆沇沈沉沊沋沌沍沎沏沐沑沒沓沔沕沖沗沘沙沚沛沜沝沞沟沠没沢沣沤沥沦沧沨沩沪沫沬沭沮沯沰沱沲河沴沵沶沷沸油沺治沼沽沾沿泀況泂泃泄泅泆泇泈泉泊泋泌泍泎泏泐泑泒泓泔法泖泗泘泙泚泛泜泝泞泟泠泡波泣泤泥泦泧注泩泪泫泬泭泮泯泰泱泲泳泴泵泶泷泸泹泺泻泼泽泾泿涀涁涂涃涄涅涆涇消涉涊涋涌涍涎涏涐涑涒涓涔涕涖涗涘涙涚涛涜涝涞涟涠涡涢涣涤涥润涧涨涩涪涫涬涭涮涯涰涱液涳涴涵涶涷涸涹涺涻涼涽涾涿淀淁淂淃淄淅淆淇淈淉淊淋淌淍淎淏淐淑淒淓淔淕淖淗淘淙淚淛淜淝淞淟淠淡淢淣淤淥淦淧淨淩淪淫淬淭淮淯淰深淲淳淴淵淶混淸淹淺添淼淽淾淿満溁溂溃溄溅溆溇溈溉溊溋溌溍溎溏源溑溒溓溔溕準溗溘溙溚溛溜溝溞溟溠溡溢溣溤溥溦溧溨溩溪溫溬溭溮溯溰溱溲溳溴溵溶溷溸溹溺溻溼溽溾溿滀滁滂滃滄滅滆滇滈滉滊滋滌滍滎滏滐滑滒滓滔滕滖滗滘滙滚滛滜滝滞滟滠满滢滣滤滥滦滧滨滩滪滫滬滭滮滯滰滱滲滳滴滵滶滷滸滹滺滻滼滽滾滿澀澁澂澃澄澅澆澇澈澉澊澋澌澍澎澏澐澑澒澓澔澕澖澗澘澙澚澛澜澝澞澟澠澡澢澣澤澥澦澧澨澩澪澫澬澭澮澯澰澱澲澳澴澵澶澷澸澹澺澻澼澽澾澿激濁濂濃濄濅濆濇濈濉濊濋濌濍濎濏濐濑濒濓濔濕濖濗濘濙濚濛濜濝濞濟濠濡濢濣濤濥濦濧濨濩濪濫濬濭濮濯濰濱濲濳濴濵濶濷濸濹濺濻濼濽濾濿炀炁炂炃炄炅炆炇炈炉炊炋炌炍炎炏炐炑炒炓炔炕炖炗炘炙炚炛炜炝炞炟炠炡炢炣炤炥炦炧炨炩炪炫炬炭炮炯炰炱炲炳炴炵炶炷炸点為炻炼炽炾炿烀烁烂烃烄烅烆烇烈烉烊烋烌烍烎烏烐烑烒烓烔烕烖烗烘烙烚烛烜烝烞烟烠烡烢烣烤烥烦烧烨烩烪烫烬热烮烯烰烱烲烳烴烵烶烷烸烹烺烻烼烽烾烿熀熁熂熃熄熅熆熇熈熉熊熋熌熍熎熏熐熑熒熓熔熕熖熗熘熙熚熛熜熝熞熟熠熡熢熣熤熥熦熧熨熩熪熫熬熭熮熯熰熱熲熳熴熵熶熷熸熹熺熻熼熽熾熿燀燁燂燃燄燅燆燇燈燉燊燋燌燍燎燏燐燑燒燓燔燕燖燗燘燙燚燛燜燝燞營燠燡燢燣燤燥燦燧燨燩燪燫燬燭燮燯燰燱燲燳燴燵燶燷燸燹燺燻燼燽燾燿犀犁犂犃犄犅犆犇犈犉犊犋犌犍犎犏犐犑犒犓犔犕犖犗犘犙犚犛犜犝犞犟犠犡犢犣犤犥犦犧犨犩犪犫犬犭犮犯犰犱犲犳犴犵状犷犸犹犺犻犼犽犾犿狀狁狂狃狄狅狆狇狈狉狊狋狌狍狎狏狐狑狒狓狔狕狖狗狘狙狚狛狜狝狞狟狠狡狢狣狤狥狦狧狨狩狪狫独狭狮狯狰狱狲狳狴狵狶狷狸狹狺狻狼狽狾狿玀玁玂玃玄玅玆率玈玉玊王玌玍玎玏玐玑玒玓玔玕玖玗玘玙玚玛玜玝玞玟玠玡玢玣玤玥玦玧玨玩玪玫玬玭玮环现玱玲玳玴玵玶玷玸玹玺玻玼玽玾玿珀珁珂珃珄珅珆珇珈珉珊珋珌珍珎珏珐珑珒珓珔珕珖珗珘珙珚珛珜珝珞珟珠珡珢珣珤珥珦珧珨珩珪珫珬班珮珯珰珱珲珳珴珵珶珷珸珹珺珻珼珽現珿璀璁璂璃璄璅璆璇璈璉璊璋璌璍璎璏璐璑璒璓璔璕璖璗璘璙璚璛璜璝璞璟璠璡璢璣璤璥璦璧璨璩璪璫璬璭璮璯環璱璲璳璴璵璶璷璸璹璺璻璼璽璾璿瓀瓁瓂瓃瓄瓅瓆瓇瓈瓉瓊瓋瓌瓍瓎瓏瓐瓑瓒瓓瓔瓕瓖瓗瓘瓙瓚瓛瓜瓝瓞瓟瓠瓡瓢瓣瓤瓥瓦瓧瓨瓩瓪瓫瓬瓭瓮瓯瓰瓱瓲瓳瓴瓵瓶瓷瓸瓹瓺瓻瓼瓽瓾瓿疀疁疂疃疄疅疆疇疈疉疊疋疌疍疎疏疐疑疒疓疔疕疖疗疘疙疚疛疜疝疞疟疠疡疢疣疤疥疦疧疨疩疪疫疬疭疮疯疰疱疲疳疴疵疶疷疸疹疺疻疼疽疾疿痀痁痂痃痄病痆症痈痉痊痋痌痍痎痏痐痑痒痓痔痕痖痗痘痙痚痛痜痝痞痟痠痡痢痣痤痥痦痧痨痩痪痫痬痭痮痯痰痱痲痳痴痵痶痷痸痹痺痻痼痽痾痿皀皁皂皃的皅皆皇皈皉皊皋皌皍皎皏皐皑皒皓皔皕皖皗皘皙皚皛皜皝皞皟皠皡皢皣皤皥皦皧皨皩皪皫皬皭皮皯皰皱皲皳皴皵皶皷皸皹皺皻皼皽皾皿盀盁盂盃盄盅盆盇盈盉益盋盌盍盎盏盐监盒盓盔盕盖盗盘盙盚盛盜盝盞盟盠盡盢監盤盥盦盧盨盩盪盫盬盭目盯盰盱盲盳直盵盶盷相盹盺盻盼盽盾盿瞀瞁瞂瞃瞄瞅瞆瞇瞈瞉瞊瞋瞌瞍瞎瞏瞐瞑瞒瞓瞔瞕瞖瞗瞘瞙瞚瞛瞜瞝瞞瞟瞠瞡瞢瞣瞤瞥瞦瞧瞨瞩瞪瞫瞬瞭瞮瞯瞰瞱瞲瞳瞴瞵瞶瞷瞸瞹瞺瞻瞼瞽瞾瞿矀矁矂矃矄矅矆矇矈矉矊矋矌矍矎矏矐矑矒矓矔矕矖矗矘矙矚矛矜矝矞矟矠矡矢矣矤知矦矧矨矩矪矫矬短矮矯矰矱矲石矴矵矶矷矸矹矺矻矼矽矾矿碀碁碂碃碄碅碆碇碈碉碊碋碌碍碎碏碐碑碒碓碔碕碖碗碘碙碚碛碜碝碞碟碠碡碢碣碤碥碦碧碨碩碪碫碬碭碮碯碰碱碲碳碴碵碶碷碸碹確碻碼碽碾碿磀磁磂磃磄磅磆磇磈磉磊磋磌磍磎磏磐磑磒磓磔磕磖磗磘磙磚磛磜磝磞磟磠磡磢磣磤磥磦磧磨磩磪磫磬磭磮磯磰磱磲磳磴磵磶磷磸磹磺磻磼磽磾磿禀禁禂禃禄禅禆禇禈禉禊禋禌禍禎福禐禑禒禓禔禕禖禗禘禙禚禛禜禝禞禟禠禡禢禣禤禥禦禧禨禩禪禫禬禭禮禯禰禱禲禳禴禵禶禷禸禹禺离禼禽禾禿秀私秂秃秄秅秆秇秈秉秊秋秌种秎秏秐科秒秓秔秕秖秗秘秙秚秛秜秝秞租秠秡秢秣秤秥秦秧秨秩秪秫秬秭秮积称秱秲秳秴秵秶秷秸秹秺移秼秽秾秿窀突窂窃窄窅窆窇窈窉窊窋窌窍窎窏窐窑窒窓窔窕窖窗窘窙窚窛窜窝窞窟窠窡窢窣窤窥窦窧窨窩窪窫窬窭窮窯窰窱窲窳窴窵窶窷窸窹窺窻窼窽窾窿竀竁竂竃竄竅竆竇竈竉竊立竌竍竎竏竐竑竒竓竔竕竖竗竘站竚竛竜竝竞竟章竡竢竣竤童竦竧竨竩竪竫竬竭竮端竰竱竲竳竴竵競竷竸竹竺竻竼竽竾竿简箁箂箃箄箅箆箇箈箉箊箋箌箍箎箏箐箑箒箓箔箕箖算箘箙箚箛箜箝箞箟箠管箢箣箤箥箦箧箨箩箪箫箬箭箮箯箰箱箲箳箴箵箶箷箸箹箺箻箼箽箾箿節篁篂篃範篅篆篇篈築篊篋篌篍篎篏篐篑篒篓篔篕篖篗篘篙篚篛篜篝篞篟篠篡篢篣篤篥篦篧篨篩篪篫篬篭篮篯篰篱篲篳篴篵篶篷篸篹篺篻篼篽篾篿粀粁粂粃粄粅粆粇粈粉粊粋粌粍粎粏粐粑粒粓粔粕粖粗粘粙粚粛粜粝粞粟粠粡粢粣粤粥粦粧粨粩粪粫粬粭粮粯粰粱粲粳粴粵粶粷粸粹粺粻粼粽精粿糀糁糂糃糄糅糆糇糈糉糊糋糌糍糎糏糐糑糒糓糔糕糖糗糘糙糚糛糜糝糞糟糠糡糢糣糤糥糦糧糨糩糪糫糬糭糮糯糰糱糲糳糴糵糶糷糸糹糺系糼糽糾糿綀綁綂綃綄綅綆綇綈綉綊綋綌綍綎綏綐綑綒經綔綕綖綗綘継続綛綜綝綞綟綠綡綢綣綤綥綦綧綨綩綪綫綬維綮綯綰綱網綳綴綵綶綷綸綹綺綻綼綽綾綿緀緁緂緃緄緅緆緇緈緉緊緋緌緍緎総緐緑緒緓緔緕緖緗緘緙線緛緜緝緞緟締緡緢緣緤緥緦緧編緩緪緫緬緭緮緯緰緱緲緳練緵緶緷緸緹緺緻緼緽緾緿纀纁纂纃纄纅纆纇纈纉纊纋續纍纎纏纐纑纒纓纔纕纖纗纘纙纚纛纜纝纞纟纠纡红纣纤纥约级纨纩纪纫纬纭纮纯纰纱纲纳纴纵纶纷纸纹纺纻纼纽纾线绀绁绂练组绅细织终绉绊绋绌绍绎经绐绑绒结绔绕绖绗绘给绚绛络绝绞统绠绡绢绣绤绥绦继绨绩绪绫绬续绮绯绰绱绲绳维绵绶绷绸绹绺绻综绽绾绿羀羁羂羃羄羅羆羇羈羉羊羋羌羍美羏羐羑羒羓羔羕羖羗羘羙羚羛羜羝羞羟羠羡羢羣群羥羦羧羨義羪羫羬羭羮羯羰羱羲羳羴羵羶羷羸羹羺羻羼羽羾羿翀翁翂翃翄翅翆翇翈翉翊翋翌翍翎翏翐翑習翓翔翕翖翗翘翙翚翛翜翝翞翟翠翡翢翣翤翥翦翧翨翩翪翫翬翭翮翯翰翱翲翳翴翵翶翷翸翹翺翻翼翽翾翿肀肁肂肃肄肅肆肇肈肉肊肋肌肍肎肏肐肑肒肓肔肕肖肗肘肙肚肛肜肝肞肟肠股肢肣肤肥肦肧肨肩肪肫肬肭肮肯肰肱育肳肴肵肶肷肸肹肺肻肼肽肾肿胀胁胂胃胄胅胆胇胈胉胊胋背胍胎胏胐胑胒胓胔胕胖胗胘胙胚胛胜胝胞胟胠胡胢胣胤胥胦胧胨胩胪胫胬胭胮胯胰胱胲胳胴胵胶胷胸胹胺胻胼能胾胿膀膁膂膃膄膅膆膇膈膉膊膋膌膍膎膏膐膑膒膓膔膕膖膗膘膙膚膛膜膝膞膟膠膡膢膣膤膥膦膧膨膩膪膫膬膭膮膯膰膱膲膳膴膵膶膷膸膹膺膻膼膽膾膿臀臁臂臃臄臅臆臇臈臉臊臋臌臍臎臏臐臑臒臓臔臕臖臗臘臙臚臛臜臝臞臟臠臡臢臣臤臥臦臧臨臩自臫臬臭臮臯臰臱臲至致臵臶臷臸臹臺臻臼臽臾臿芀芁节芃芄芅芆芇芈芉芊芋芌芍芎芏芐芑芒芓芔芕芖芗芘芙芚芛芜芝芞芟芠芡芢芣芤芥芦芧芨芩芪芫芬芭芮芯芰花芲芳芴芵芶芷芸芹芺芻芼芽芾芿苀苁苂苃苄苅苆苇苈苉苊苋苌苍苎苏苐苑苒苓苔苕苖苗苘苙苚苛苜苝苞苟苠苡苢苣苤若苦苧苨苩苪苫苬苭苮苯苰英苲苳苴苵苶苷苸苹苺苻苼苽苾苿莀莁莂莃莄莅莆莇莈莉莊莋莌莍莎莏莐莑莒莓莔莕莖莗莘莙莚莛莜莝莞莟莠莡莢莣莤莥莦莧莨莩莪莫莬莭莮莯莰莱莲莳莴莵莶获莸莹莺莻莼莽莾莿菀菁菂菃菄菅菆菇菈菉菊菋菌菍菎菏菐菑菒菓菔菕菖菗菘菙菚菛菜菝菞菟菠菡菢菣菤菥菦菧菨菩菪菫菬菭菮華菰菱菲菳菴菵菶菷菸菹菺菻菼菽菾菿蒀蒁蒂蒃蒄蒅蒆蒇蒈蒉蒊蒋蒌蒍蒎蒏蒐蒑蒒蒓蒔蒕蒖蒗蒘蒙蒚蒛蒜蒝蒞蒟蒠蒡蒢蒣蒤蒥蒦蒧蒨蒩蒪蒫蒬蒭蒮蒯蒰蒱蒲蒳蒴蒵蒶蒷蒸蒹蒺蒻蒼蒽蒾蒿蓀蓁蓂蓃蓄蓅蓆蓇蓈蓉蓊蓋蓌蓍蓎蓏蓐蓑蓒蓓蓔蓕蓖蓗蓘蓙蓚蓛蓜蓝蓞蓟蓠蓡蓢蓣蓤蓥蓦蓧蓨蓩蓪蓫蓬蓭蓮蓯蓰蓱蓲蓳蓴蓵蓶蓷蓸蓹蓺蓻蓼蓽蓾蓿薀薁薂薃薄薅薆薇薈薉薊薋薌薍薎薏薐薑薒薓薔薕薖薗薘薙薚薛薜薝薞薟薠薡薢薣薤薥薦薧薨薩薪薫薬薭薮薯薰薱薲薳薴薵薶薷薸薹薺薻薼薽薾薿藀藁藂藃藄藅藆藇藈藉藊藋藌藍藎藏藐藑藒藓藔藕藖藗藘藙藚藛藜藝藞藟藠藡藢藣藤藥藦藧藨藩藪藫藬藭藮藯藰藱藲藳藴藵藶藷藸藹藺藻藼藽藾藿蚀蚁蚂蚃蚄蚅蚆蚇蚈蚉蚊蚋蚌蚍蚎蚏蚐蚑蚒蚓蚔蚕蚖蚗蚘蚙蚚蚛蚜蚝蚞蚟蚠蚡蚢蚣蚤蚥蚦蚧蚨蚩蚪蚫蚬蚭蚮蚯蚰蚱蚲蚳蚴蚵蚶蚷蚸蚹蚺蚻蚼蚽蚾蚿蛀蛁蛂蛃蛄蛅蛆蛇蛈蛉蛊蛋蛌蛍蛎蛏蛐蛑蛒蛓蛔蛕蛖蛗蛘蛙蛚蛛蛜蛝蛞蛟蛠蛡蛢蛣蛤蛥蛦蛧蛨蛩蛪蛫蛬蛭蛮蛯蛰蛱蛲蛳蛴蛵蛶蛷蛸蛹蛺蛻蛼蛽蛾蛿螀螁螂螃螄螅螆螇螈螉螊螋螌融螎螏螐螑螒螓螔螕螖螗螘螙螚螛螜螝螞螟螠螡螢螣螤螥螦螧螨螩螪螫螬螭螮螯螰螱螲螳螴螵螶螷螸螹螺螻螼螽螾螿蟀蟁蟂蟃蟄蟅蟆蟇蟈蟉蟊蟋蟌蟍蟎蟏蟐蟑蟒蟓蟔蟕蟖蟗蟘蟙蟚蟛蟜蟝蟞蟟蟠蟡蟢蟣蟤蟥蟦蟧蟨蟩蟪蟫蟬蟭蟮蟯蟰蟱蟲蟳蟴蟵蟶蟷蟸蟹蟺蟻蟼蟽蟾蟿袀袁袂袃袄袅袆袇袈袉袊袋袌袍袎袏袐袑袒袓袔袕袖袗袘袙袚袛袜袝袞袟袠袡袢袣袤袥袦袧袨袩袪被袬袭袮袯袰袱袲袳袴袵袶袷袸袹袺袻袼袽袾袿裀裁裂裃裄装裆裇裈裉裊裋裌裍裎裏裐裑裒裓裔裕裖裗裘裙裚裛補裝裞裟裠裡裢裣裤裥裦裧裨裩裪裫裬裭裮裯裰裱裲裳裴裵裶裷裸裹裺裻裼製裾裿覀要覂覃覄覅覆覇覈覉覊見覌覍覎規覐覑覒覓覔覕視覗覘覙覚覛覜覝覞覟覠覡覢覣覤覥覦覧覨覩親覫覬覭覮覯覰覱覲観覴覵覶覷覸覹覺覻覼覽覾覿觀见观觃规觅视觇览觉觊觋觌觍觎觏觐觑角觓觔觕觖觗觘觙觚觛觜觝觞觟觠觡觢解觤觥触觧觨觩觪觫觬觭觮觯觰觱觲觳觴觵觶觷觸觹觺觻觼觽觾觿誀誁誂誃誄誅誆誇誈誉誊誋誌認誎誏誐誑誒誓誔誕誖誗誘誙誚誛誜誝語誟誠誡誢誣誤誥誦誧誨誩說誫説読誮誯誰誱課誳誴誵誶誷誸誹誺誻誼誽誾調諀諁諂諃諄諅諆談諈諉諊請諌諍諎諏諐諑諒諓諔諕論諗諘諙諚諛諜諝諞諟諠諡諢諣諤諥諦諧諨諩諪諫諬諭諮諯諰諱諲諳諴諵諶諷諸諹諺諻諼諽諾諿讀讁讂讃讄讅讆讇讈讉變讋讌讍讎讏讐讑讒讓讔讕讖讗讘讙讚讛讜讝讞讟讠计订讣认讥讦讧讨让讪讫讬训议讯记讱讲讳讴讵讶讷许讹论讻讼讽设访诀证诂诃评诅识诇诈诉诊诋诌词诎诏诐译诒诓诔试诖诗诘诙诚诛诜话诞诟诠诡询诣诤该详诧诨诩诪诫诬语诮误诰诱诲诳说诵诶请诸诹诺读诼诽课诿貀貁貂貃貄貅貆貇貈貉貊貋貌貍貎貏貐貑貒貓貔貕貖貗貘貙貚貛貜貝貞貟負財貢貣貤貥貦貧貨販貪貫責貭貮貯貰貱貲貳貴貵貶買貸貹貺費貼貽貾貿賀賁賂賃賄賅賆資賈賉賊賋賌賍賎賏賐賑賒賓賔賕賖賗賘賙賚賛賜賝賞賟賠賡賢賣賤賥賦賧賨賩質賫賬賭賮賯賰賱賲賳賴賵賶賷賸賹賺賻購賽賾賿趀趁趂趃趄超趆趇趈趉越趋趌趍趎趏趐趑趒趓趔趕趖趗趘趙趚趛趜趝趞趟趠趡趢趣趤趥趦趧趨趩趪趫趬趭趮趯趰趱趲足趴趵趶趷趸趹趺趻趼趽趾趿跀跁跂跃跄跅跆跇跈跉跊跋跌跍跎跏跐跑跒跓跔跕跖跗跘跙跚跛跜距跞跟跠跡跢跣跤跥跦跧跨跩跪跫跬跭跮路跰跱跲跳跴践跶跷跸跹跺跻跼跽跾跿躀躁躂躃躄躅躆躇躈躉躊躋躌躍躎躏躐躑躒躓躔躕躖躗躘躙躚躛躜躝躞躟躠躡躢躣躤躥躦躧躨躩躪身躬躭躮躯躰躱躲躳躴躵躶躷躸躹躺躻躼躽躾躿軀軁軂軃軄軅軆軇軈軉車軋軌軍軎軏軐軑軒軓軔軕軖軗軘軙軚軛軜軝軞軟軠軡転軣軤軥軦軧軨軩軪軫軬軭軮軯軰軱軲軳軴軵軶軷軸軹軺軻軼軽軾軿辀辁辂较辄辅辆辇辈辉辊辋辌辍辎辏辐辑辒输辔辕辖辗辘辙辚辛辜辝辞辟辠辡辢辣辤辥辦辧辨辩辪辫辬辭辮辯辰辱農辳辴辵辶辷辸边辺辻込辽达辿迀迁迂迃迄迅迆过迈迉迊迋迌迍迎迏运近迒迓返迕迖迗还这迚进远违连迟迠迡迢迣迤迥迦迧迨迩迪迫迬迭迮迯述迱迲迳迴迵迶迷迸迹迺迻迼追迾迿邀邁邂邃還邅邆邇邈邉邊邋邌邍邎邏邐邑邒邓邔邕邖邗邘邙邚邛邜邝邞邟邠邡邢那邤邥邦邧邨邩邪邫邬邭邮邯邰邱邲邳邴邵邶邷邸邹邺邻邼邽邾邿郀郁郂郃郄郅郆郇郈郉郊郋郌郍郎郏郐郑郒郓郔郕郖郗郘郙郚郛郜郝郞郟郠郡郢郣郤郥郦郧部郩郪郫郬郭郮郯郰郱郲郳郴郵郶郷郸郹郺郻郼都郾郿醀醁醂醃醄醅醆醇醈醉醊醋醌醍醎醏醐醑醒醓醔醕醖醗醘醙醚醛醜醝醞醟醠醡醢醣醤醥醦醧醨醩醪醫醬醭醮醯醰醱醲醳醴醵醶醷醸醹醺醻醼醽醾醿釀釁釂釃釄釅釆采釈釉释釋里重野量釐金釒釓釔釕釖釗釘釙釚釛釜針釞釟釠釡釢釣釤釥釦釧釨釩釪釫釬釭釮釯釰釱釲釳釴釵釶釷釸釹釺釻釼釽釾釿銀銁銂銃銄銅銆銇銈銉銊銋銌銍銎銏銐銑銒銓銔銕銖銗銘銙銚銛銜銝銞銟銠銡銢銣銤銥銦銧銨銩銪銫銬銭銮銯銰銱銲銳銴銵銶銷銸銹銺銻銼銽銾銿鋀鋁鋂鋃鋄鋅鋆鋇鋈鋉鋊鋋鋌鋍鋎鋏鋐鋑鋒鋓鋔鋕鋖鋗鋘鋙鋚鋛鋜鋝鋞鋟鋠鋡鋢鋣鋤鋥鋦鋧鋨鋩鋪鋫鋬鋭鋮鋯鋰鋱鋲鋳鋴鋵鋶鋷鋸鋹鋺鋻鋼鋽鋾鋿鎀鎁鎂鎃鎄鎅鎆鎇鎈鎉鎊鎋鎌鎍鎎鎏鎐鎑鎒鎓鎔鎕鎖鎗鎘鎙鎚鎛鎜鎝鎞鎟鎠鎡鎢鎣鎤鎥鎦鎧鎨鎩鎪鎫鎬鎭鎮鎯鎰鎱鎲鎳鎴鎵鎶鎷鎸鎹鎺鎻鎼鎽鎾鎿鏀鏁鏂鏃鏄鏅鏆鏇鏈鏉鏊鏋鏌鏍鏎鏏鏐鏑鏒鏓鏔鏕鏖鏗鏘鏙鏚鏛鏜鏝鏞鏟鏠鏡鏢鏣鏤鏥鏦鏧鏨鏩鏪鏫鏬鏭鏮鏯鏰鏱鏲鏳鏴鏵鏶鏷鏸鏹鏺鏻鏼鏽鏾鏿钀钁钂钃钄钅钆钇针钉钊钋钌钍钎钏钐钑钒钓钔钕钖钗钘钙钚钛钜钝钞钟钠钡钢钣钤钥钦钧钨钩钪钫钬钭钮钯钰钱钲钳钴钵钶钷钸钹钺钻钼钽钾钿铀铁铂铃铄铅铆铇铈铉铊铋铌铍铎铏铐铑铒铓铔铕铖铗铘铙铚铛铜铝铞铟铠铡铢铣铤铥铦铧铨铩铪铫铬铭铮铯铰铱铲铳铴铵银铷铸铹铺铻铼铽链铿門閁閂閃閄閅閆閇閈閉閊開閌閍閎閏閐閑閒間閔閕閖閗閘閙閚閛閜閝閞閟閠閡関閣閤閥閦閧閨閩閪閫閬閭閮閯閰閱閲閳閴閵閶閷閸閹閺閻閼閽閾閿闀闁闂闃闄闅闆闇闈闉闊闋闌闍闎闏闐闑闒闓闔闕闖闗闘闙闚闛關闝闞闟闠闡闢闣闤闥闦闧门闩闪闫闬闭问闯闰闱闲闳间闵闶闷闸闹闺闻闼闽闾闿隀隁隂隃隄隅隆隇隈隉隊隋隌隍階随隐隑隒隓隔隕隖隗隘隙隚際障隝隞隟隠隡隢隣隤隥隦隧隨隩險隫隬隭隮隯隰隱隲隳隴隵隶隷隸隹隺隻隼隽难隿雀雁雂雃雄雅集雇雈雉雊雋雌雍雎雏雐雑雒雓雔雕雖雗雘雙雚雛雜雝雞雟雠雡離難雤雥雦雧雨雩雪雫雬雭雮雯雰雱雲雳雴雵零雷雸雹雺電雼雽雾雿鞀鞁鞂鞃鞄鞅鞆鞇鞈鞉鞊鞋鞌鞍鞎鞏鞐鞑鞒鞓鞔鞕鞖鞗鞘鞙鞚鞛鞜鞝鞞鞟鞠鞡鞢鞣鞤鞥鞦鞧鞨鞩鞪鞫鞬鞭鞮鞯鞰鞱鞲鞳鞴鞵鞶鞷鞸鞹鞺鞻鞼鞽鞾鞿韀韁韂韃韄韅韆韇韈韉韊韋韌韍韎韏韐韑韒韓韔韕韖韗韘韙韚韛韜韝韞韟韠韡韢韣韤韥韦韧韨韩韪韫韬韭韮韯韰韱韲音韴韵韶韷韸韹韺韻韼韽韾響颀颁颂颃预颅领颇颈颉颊颋颌颍颎颏颐频颒颓颔颕颖颗题颙颚颛颜额颞颟颠颡颢颣颤颥颦颧風颩颪颫颬颭颮颯颰颱颲颳颴颵颶颷颸颹颺颻颼颽颾颿飀飁飂飃飄飅飆飇飈飉飊飋飌飍风飏飐飑飒飓飔飕飖飗飘飙飚飛飜飝飞食飠飡飢飣飤飥飦飧飨飩飪飫飬飭飮飯飰飱飲飳飴飵飶飷飸飹飺飻飼飽飾飿馀馁馂馃馄馅馆馇馈馉馊馋馌馍馎馏馐馑馒馓馔馕首馗馘香馚馛馜馝馞馟馠馡馢馣馤馥馦馧馨馩馪馫馬馭馮馯馰馱馲馳馴馵馶馷馸馹馺馻馼馽馾馿駀駁駂駃駄駅駆駇駈駉駊駋駌駍駎駏駐駑駒駓駔駕駖駗駘駙駚駛駜駝駞駟駠駡駢駣駤駥駦駧駨駩駪駫駬駭駮駯駰駱駲駳駴駵駶駷駸駹駺駻駼駽駾駿骀骁骂骃骄骅骆骇骈骉骊骋验骍骎骏骐骑骒骓骔骕骖骗骘骙骚骛骜骝骞骟骠骡骢骣骤骥骦骧骨骩骪骫骬骭骮骯骰骱骲骳骴骵骶骷骸骹骺骻骼骽骾骿髀髁髂髃髄髅髆髇髈髉髊髋髌髍髎髏髐髑髒髓體髕髖髗高髙髚髛髜髝髞髟髠髡髢髣髤髥髦髧髨髩髪髫髬髭髮髯髰髱髲髳髴髵髶髷髸髹髺髻髼髽髾髿鮀鮁鮂鮃鮄鮅鮆鮇鮈鮉鮊鮋鮌鮍鮎鮏鮐鮑鮒鮓鮔鮕鮖鮗鮘鮙鮚鮛鮜鮝鮞鮟鮠鮡鮢鮣鮤鮥鮦鮧鮨鮩鮪鮫鮬鮭鮮鮯鮰鮱鮲鮳鮴鮵鮶鮷鮸鮹鮺鮻鮼鮽鮾鮿鯀鯁鯂鯃鯄鯅鯆鯇鯈鯉鯊鯋鯌鯍鯎鯏鯐鯑鯒鯓鯔鯕鯖鯗鯘鯙鯚鯛鯜鯝鯞鯟鯠鯡鯢鯣鯤鯥鯦鯧鯨鯩鯪鯫鯬鯭鯮鯯鯰鯱鯲鯳鯴鯵鯶鯷鯸鯹鯺鯻鯼鯽鯾鯿鲀鲁鲂鲃鲄鲅鲆鲇鲈鲉鲊鲋鲌鲍鲎鲏鲐鲑鲒鲓鲔鲕鲖鲗鲘鲙鲚鲛鲜鲝鲞鲟鲠鲡鲢鲣鲤鲥鲦鲧鲨鲩鲪鲫鲬鲭鲮鲯鲰鲱鲲鲳鲴鲵鲶鲷鲸鲹鲺鲻鲼鲽鲾鲿鳀鳁鳂鳃鳄鳅鳆鳇鳈鳉鳊鳋鳌鳍鳎鳏鳐鳑鳒鳓鳔鳕鳖鳗鳘鳙鳚鳛鳜鳝鳞鳟鳠鳡鳢鳣鳤鳥鳦鳧鳨鳩鳪鳫鳬鳭鳮鳯鳰鳱鳲鳳鳴鳵鳶鳷鳸鳹鳺鳻鳼鳽鳾鳿鶀鶁鶂鶃鶄鶅鶆鶇鶈鶉鶊鶋鶌鶍鶎鶏鶐鶑鶒鶓鶔鶕鶖鶗鶘鶙鶚鶛鶜鶝鶞鶟鶠鶡鶢鶣鶤鶥鶦鶧鶨鶩鶪鶫鶬鶭鶮鶯鶰鶱鶲鶳鶴鶵鶶鶷鶸鶹鶺鶻鶼鶽鶾鶿鷀鷁鷂鷃鷄鷅鷆鷇鷈鷉鷊鷋鷌鷍鷎鷏鷐鷑鷒鷓鷔鷕鷖鷗鷘鷙鷚鷛鷜鷝鷞鷟鷠鷡鷢鷣鷤鷥鷦鷧鷨鷩鷪鷫鷬鷭鷮鷯鷰鷱鷲鷳鷴鷵鷶鷷鷸鷹鷺鷻鷼鷽鷾鷿麀麁麂麃麄麅麆麇麈麉麊麋麌麍麎麏麐麑麒麓麔麕麖麗麘麙麚麛麜麝麞麟麠麡麢麣麤麥麦麧麨麩麪麫麬麭麮麯麰麱麲麳麴麵麶麷麸麹麺麻麼麽麾麿黀黁黂黃黄黅黆黇黈黉黊黋黌黍黎黏黐黑黒黓黔黕黖黗默黙黚黛黜黝點黟黠黡黢黣黤黥黦黧黨黩黪黫黬黭黮黯黰黱黲黳黴黵黶黷黸黹黺黻黼黽黾黿龀龁龂龃龄龅龆龇龈龉龊龋龌龍龎龏龐龑龒龓龔龕龖龗龘龙龚龛龜龝龞龟龠龡龢龣龤龥龦龧龨龩龪龫龬龭龮龯龰龱龲龳龴龵龶龷龸龹龺龻龼龽龾龿鿀鿁鿂鿃鿄鿅鿆鿇鿈鿉鿊鿋鿌鿍鿎鿏鿐鿑鿒鿓鿔鿕鿖鿗鿘鿙鿚鿛鿜鿝鿞鿟鿠鿡鿢鿣鿤鿥鿦鿧鿨鿩鿪鿫鿬鿭鿮鿯鿰鿱鿲鿳鿴鿵鿶鿷鿸鿹鿺鿻鿼鿽鿾鿿ꂀꂁꂂꂃꂄꂅꂆꂇꂈꂉꂊꂋꂌꂍꂎꂏꂐꂑꂒꂓꂔꂕꂖꂗꂘꂙꂚꂛꂜꂝꂞꂟꂠꂡꂢꂣꂤꂥꂦꂧꂨꂩꂪꂫꂬꂭꂮꂯꂰꂱꂲꂳꂴꂵꂶꂷꂸꂹꂺꂻꂼꂽꂾꂿꃀꃁꃂꃃꃄꃅꃆꃇꃈꃉꃊꃋꃌꃍꃎꃏꃐꃑꃒꃓꃔꃕꃖꃗꃘꃙꃚꃛꃜꃝꃞꃟꃠꃡꃢꃣꃤꃥꃦꃧꃨꃩꃪꃫꃬꃭꃮꃯꃰꃱꃲꃳꃴꃵꃶꃷꃸꃹꃺꃻꃼꃽꃾꃿꆀꆁꆂꆃꆄꆅꆆꆇꆈꆉꆊꆋꆌꆍꆎꆏꆐꆑꆒꆓꆔꆕꆖꆗꆘꆙꆚꆛꆜꆝꆞꆟꆠꆡꆢꆣꆤꆥꆦꆧꆨꆩꆪꆫꆬꆭꆮꆯꆰꆱꆲꆳꆴꆵꆶꆷꆸꆹꆺꆻꆼꆽꆾꆿꇀꇁꇂꇃꇄꇅꇆꇇꇈꇉꇊꇋꇌꇍꇎꇏꇐꇑꇒꇓꇔꇕꇖꇗꇘꇙꇚꇛꇜꇝꇞꇟꇠꇡꇢꇣꇤꇥꇦꇧꇨꇩꇪꇫꇬꇭꇮꇯꇰꇱꇲꇳꇴꇵꇶꇷꇸꇹꇺꇻꇼꇽꇾꇿꊀꊁꊂꊃꊄꊅꊆꊇꊈꊉꊊꊋꊌꊍꊎꊏꊐꊑꊒꊓꊔꊕꊖꊗꊘꊙꊚꊛꊜꊝꊞꊟꊠꊡꊢꊣꊤꊥꊦꊧꊨꊩꊪꊫꊬꊭꊮꊯꊰꊱꊲꊳꊴꊵꊶꊷꊸꊹꊺꊻꊼꊽꊾꊿꋀꋁꋂꋃꋄꋅꋆꋇꋈꋉꋊꋋꋌꋍꋎꋏꋐꋑꋒꋓꋔꋕꋖꋗꋘꋙꋚꋛꋜꋝꋞꋟꋠꋡꋢꋣꋤꋥꋦꋧꋨꋩꋪꋫꋬꋭꋮꋯꋰꋱꋲꋳꋴꋵꋶꋷꋸꋹꋺꋻꋼꋽꋾꋿꎀꎁꎂꎃꎄꎅꎆꎇꎈꎉꎊꎋꎌꎍꎎꎏꎐꎑꎒꎓꎔꎕꎖꎗꎘꎙꎚꎛꎜꎝꎞꎟꎠꎡꎢꎣꎤꎥꎦꎧꎨꎩꎪꎫꎬꎭꎮꎯꎰꎱꎲꎳꎴꎵꎶꎷꎸꎹꎺꎻꎼꎽꎾꎿꏀꏁꏂꏃꏄꏅꏆꏇꏈꏉꏊꏋꏌꏍꏎꏏꏐꏑꏒꏓꏔꏕꏖꏗꏘꏙꏚꏛꏜꏝꏞꏟꏠꏡꏢꏣꏤꏥꏦꏧꏨꏩꏪꏫꏬꏭꏮꏯꏰꏱꏲꏳꏴꏵꏶꏷꏸꏹꏺꏻꏼꏽꏾꏿꒀꒁꒂꒃꒄꒅꒆꒇꒈꒉꒊꒋꒌ꒍꒎꒏꒐꒑꒒꒓꒔꒕꒖꒗꒘꒙꒚꒛꒜꒝꒞꒟꒠꒡꒢꒣꒤꒥꒦꒧꒨꒩꒪꒫꒬꒭꒮꒯꒰꒱꒲꒳꒴꒵꒶꒷꒸꒹꒺꒻꒼꒽꒾꒿꓀꓁꓂꓃꓄꓅꓆꓇꓈꓉꓊꓋꓌꓍꓎꓏ꓐꓑꓒꓓꓔꓕꓖꓗꓘꓙꓚꓛꓜꓝꓞꓟꓠꓡꓢꓣꓤꓥꓦꓧꓨꓩꓪꓫꓬꓭꓮꓯꓰꓱꓲꓳꓴꓵꓶꓷꓸꓹꓺꓻꓼꓽ꓾꓿ꖀꖁꖂꖃꖄꖅꖆꖇꖈꖉꖊꖋꖌꖍꖎꖏꖐꖑꖒꖓꖔꖕꖖꖗꖘꖙꖚꖛꖜꖝꖞꖟꖠꖡꖢꖣꖤꖥꖦꖧꖨꖩꖪꖫꖬꖭꖮꖯꖰꖱꖲꖳꖴꖵꖶꖷꖸꖹꖺꖻꖼꖽꖾꖿꗀꗁꗂꗃꗄꗅꗆꗇꗈꗉꗊꗋꗌꗍꗎꗏꗐꗑꗒꗓꗔꗕꗖꗗꗘꗙꗚꗛꗜꗝꗞꗟꗠꗡꗢꗣꗤꗥꗦꗧꗨꗩꗪꗫꗬꗭꗮꗯꗰꗱꗲꗳꗴꗵꗶꗷꗸꗹꗺꗻꗼꗽꗾꗿꚀꚁꚂꚃꚄꚅꚆꚇꚈꚉꚊꚋꚌꚍꚎꚏꚐꚑꚒꚓꚔꚕꚖꚗꚘꚙꚚꚛꚜꚝꚞꚟꚠꚡꚢꚣꚤꚥꚦꚧꚨꚩꚪꚫꚬꚭꚮꚯꚰꚱꚲꚳꚴꚵꚶꚷꚸꚹꚺꚻꚼꚽꚾꚿꛀꛁꛂꛃꛄꛅꛆꛇꛈꛉꛊꛋꛌꛍꛎꛏꛐꛑꛒꛓꛔꛕꛖꛗꛘꛙꛚꛛꛜꛝꛞꛟꛠꛡꛢꛣꛤꛥꛦꛧꛨꛩꛪꛫꛬꛭꛮꛯ꛰꛱꛲꛳꛴꛵꛶꛷꛸꛹꛺꛻꛼꛽꛾꛿ꞀꞁꞂꞃꞄꞅꞆꞇꞈ꞉꞊ꞋꞌꞍꞎꞏꞐꞑꞒꞓꞔꞕꞖꞗꞘꞙꞚꞛꞜꞝꞞꞟꞠꞡꞢꞣꞤꞥꞦꞧꞨꞩꞪꞫꞬꞭꞮꞯꞰꞱꞲꞳꞴꞵꞶꞷꞸꞹꞺꞻꞼꞽꞾꞿꟀꟁꟂꟃꟄꟅꟆꟇꟈꟉꟊꟋꟌꟍ꟎꟏Ꟑꟑ꟒ꟓ꟔ꟕꟖꟗꟘꟙꟚꟛꟜ꟝꟞꟟꟠꟡꟢꟣꟤꟥꟦꟧꟨꟩꟪꟫꟬꟭꟮꟯꟰꟱ꟲꟳꟴꟵꟶꟷꟸꟹꟺꟻꟼꟽꟾꟿꢀꢁꢂꢃꢄꢅꢆꢇꢈꢉꢊꢋꢌꢍꢎꢏꢐꢑꢒꢓꢔꢕꢖꢗꢘꢙꢚꢛꢜꢝꢞꢟꢠꢡꢢꢣꢤꢥꢦꢧꢨꢩꢪꢫꢬꢭꢮꢯꢰꢱꢲꢳꢴꢵꢶꢷꢸꢹꢺꢻꢼꢽꢾꢿꣀꣁꣂꣃ꣄ꣅ꣆꣇꣈꣉꣊꣋꣌꣍꣎꣏꣐꣑꣒꣓꣔꣕꣖꣗꣘꣙꣚꣛꣜꣝꣞꣟꣠꣡꣢꣣꣤꣥꣦꣧꣨꣩꣪꣫꣬꣭꣮꣯꣰꣱ꣲꣳꣴꣵꣶꣷ꣸꣹꣺ꣻ꣼ꣽꣾꣿꦀꦁꦂꦃꦄꦅꦆꦇꦈꦉꦊꦋꦌꦍꦎꦏꦐꦑꦒꦓꦔꦕꦖꦗꦘꦙꦚꦛꦜꦝꦞꦟꦠꦡꦢꦣꦤꦥꦦꦧꦨꦩꦪꦫꦬꦭꦮꦯꦰꦱꦲ꦳ꦴꦵꦶꦷꦸꦹꦺꦻꦼꦽꦾꦿ꧀꧁꧂꧃꧄꧅꧆꧇꧈꧉꧊꧋꧌꧍꧎ꧏ꧐꧑꧒꧓꧔꧕꧖꧗꧘꧙꧚꧛꧜꧝꧞꧟ꧠꧡꧢꧣꧤꧥꧦꧧꧨꧩꧪꧫꧬꧭꧮꧯ꧰꧱꧲꧳꧴꧵꧶꧷꧸꧹ꧺꧻꧼꧽꧾ꧿ꪀꪁꪂꪃꪄꪅꪆꪇꪈꪉꪊꪋꪌꪍꪎꪏꪐꪑꪒꪓꪔꪕꪖꪗꪘꪙꪚꪛꪜꪝꪞꪟꪠꪡꪢꪣꪤꪥꪦꪧꪨꪩꪪꪫꪬꪭꪮꪯꪰꪱꪴꪲꪳꪵꪶꪷꪸꪹꪺꪻꪼꪽꪾ꪿ꫀ꫁ꫂ꫃꫄꫅꫆꫇꫈꫉꫊꫋꫌꫍꫎꫏꫐꫑꫒꫓꫔꫕꫖꫗꫘꫙꫚ꫛꫜꫝ꫞꫟ꫠꫡꫢꫣꫤꫥꫦꫧꫨꫩꫪꫫꫬꫭꫮꫯ꫰꫱ꫲꫳꫴꫵ꫶꫷꫸꫹꫺꫻꫼꫽꫾꫿ꮀꮁꮂꮃꮄꮅꮆꮇꮈꮉꮊꮋꮌꮍꮎꮏꮐꮑꮒꮓꮔꮕꮖꮗꮘꮙꮚꮛꮜꮝꮞꮟꮠꮡꮢꮣꮤꮥꮦꮧꮨꮩꮪꮫꮬꮭꮮꮯꮰꮱꮲꮳꮴꮵꮶꮷꮸꮹꮺꮻꮼꮽꮾꮿꯀꯁꯂꯃꯄꯅꯆꯇꯈꯉꯊꯋꯌꯍꯎꯏꯐꯑꯒꯓꯔꯕꯖꯗꯘꯙꯚꯛꯜꯝꯞꯟꯠꯡꯢꯣꯤꯥꯦꯧꯨꯩꯪ꯫꯬꯭꯮꯯꯰꯱꯲꯳꯴꯵꯶꯷꯸꯹꯺꯻꯼꯽꯾꯿검겁겂것겄겅겆겇겈겉겊겋게겍겎겏겐겑겒겓겔겕겖겗겘겙겚겛겜겝겞겟겠겡겢겣겤겥겦겧겨격겪겫견겭겮겯결겱겲겳겴겵겶겷겸겹겺겻겼경겾겿곀곁곂곃계곅곆곇곈곉곊곋곌곍곎곏곐곑곒곓곔곕곖곗곘곙곚곛곜곝곞곟고곡곢곣곤곥곦곧골곩곪곫곬곭곮곯곰곱곲곳곴공곶곷곸곹곺곻과곽곾곿궀궁궂궃궄궅궆궇궈궉궊궋권궍궎궏궐궑궒궓궔궕궖궗궘궙궚궛궜궝궞궟궠궡궢궣궤궥궦궧궨궩궪궫궬궭궮궯궰궱궲궳궴궵궶궷궸궹궺궻궼궽궾궿귀귁귂귃귄귅귆귇귈귉귊귋귌귍귎귏귐귑귒귓귔귕귖귗귘귙귚귛규귝귞귟균귡귢귣귤귥귦귧귨귩귪귫귬귭귮귯귰귱귲귳귴귵귶귷그극귺귻근귽귾귿꺀꺁꺂꺃꺄꺅꺆꺇꺈꺉꺊꺋꺌꺍꺎꺏꺐꺑꺒꺓꺔꺕꺖꺗꺘꺙꺚꺛꺜꺝꺞꺟꺠꺡꺢꺣꺤꺥꺦꺧꺨꺩꺪꺫꺬꺭꺮꺯꺰꺱꺲꺳꺴꺵꺶꺷꺸꺹꺺꺻꺼꺽꺾꺿껀껁껂껃껄껅껆껇껈껉껊껋껌껍껎껏껐껑껒껓껔껕껖껗께껙껚껛껜껝껞껟껠껡껢껣껤껥껦껧껨껩껪껫껬껭껮껯껰껱껲껳껴껵껶껷껸껹껺껻껼껽껾껿꾀꾁꾂꾃꾄꾅꾆꾇꾈꾉꾊꾋꾌꾍꾎꾏꾐꾑꾒꾓꾔꾕꾖꾗꾘꾙꾚꾛꾜꾝꾞꾟꾠꾡꾢꾣꾤꾥꾦꾧꾨꾩꾪꾫꾬꾭꾮꾯꾰꾱꾲꾳꾴꾵꾶꾷꾸꾹꾺꾻꾼꾽꾾꾿꿀꿁꿂꿃꿄꿅꿆꿇꿈꿉꿊꿋꿌꿍꿎꿏꿐꿑꿒꿓꿔꿕꿖꿗꿘꿙꿚꿛꿜꿝꿞꿟꿠꿡꿢꿣꿤꿥꿦꿧꿨꿩꿪꿫꿬꿭꿮꿯꿰꿱꿲꿳꿴꿵꿶꿷꿸꿹꿺꿻꿼꿽꿾꿿낀낁낂낃낄낅낆낇낈낉낊낋낌낍낎낏낐낑낒낓낔낕낖낗나낙낚낛난낝낞낟날낡낢낣낤낥낦낧남납낪낫났낭낮낯낰낱낲낳내낵낶낷낸낹낺낻낼낽낾낿냀냁냂냃냄냅냆냇냈냉냊냋냌냍냎냏냐냑냒냓냔냕냖냗냘냙냚냛냜냝냞냟냠냡냢냣냤냥냦냧냨냩냪냫냬냭냮냯냰냱냲냳냴냵냶냷냸냹냺냻냼냽냾냿놀놁놂놃놄놅놆놇놈놉놊놋놌농놎놏놐놑높놓놔놕놖놗놘놙놚놛놜놝놞놟놠놡놢놣놤놥놦놧놨놩놪놫놬놭놮놯놰놱놲놳놴놵놶놷놸놹놺놻놼놽놾놿뇀뇁뇂뇃뇄뇅뇆뇇뇈뇉뇊뇋뇌뇍뇎뇏뇐뇑뇒뇓뇔뇕뇖뇗뇘뇙뇚뇛뇜뇝뇞뇟뇠뇡뇢뇣뇤뇥뇦뇧뇨뇩뇪뇫뇬뇭뇮뇯뇰뇱뇲뇳뇴뇵뇶뇷뇸뇹뇺뇻뇼뇽뇾뇿늀늁늂늃늄늅늆늇늈늉늊늋늌늍늎늏느늑늒늓는늕늖늗늘늙늚늛늜늝늞늟늠늡늢늣늤능늦늧늨늩늪늫늬늭늮늯늰늱늲늳늴늵늶늷늸늹늺늻늼늽늾늿닀닁닂닃닄닅닆닇니닉닊닋닌닍닎닏닐닑닒닓닔닕닖닗님닙닚닛닜닝닞닟닠닡닢닣다닥닦닧단닩닪닫달닭닮닯닰닱닲닳담답닶닷닸당닺닻닼닽닾닿뎀뎁뎂뎃뎄뎅뎆뎇뎈뎉뎊뎋뎌뎍뎎뎏뎐뎑뎒뎓뎔뎕뎖뎗뎘뎙뎚뎛뎜뎝뎞뎟뎠뎡뎢뎣뎤뎥뎦뎧뎨뎩뎪뎫뎬뎭뎮뎯뎰뎱뎲뎳뎴뎵뎶뎷뎸뎹뎺뎻뎼뎽뎾뎿돀돁돂돃도독돆돇돈돉돊돋돌돍돎돏돐돑돒돓돔돕돖돗돘동돚돛돜돝돞돟돠돡돢돣돤돥돦돧돨돩돪돫돬돭돮돯돰돱돲돳돴돵돶돷돸돹돺돻돼돽돾돿뒀뒁뒂뒃뒄뒅뒆뒇뒈뒉뒊뒋뒌뒍뒎뒏뒐뒑뒒뒓뒔뒕뒖뒗뒘뒙뒚뒛뒜뒝뒞뒟뒠뒡뒢뒣뒤뒥뒦뒧뒨뒩뒪뒫뒬뒭뒮뒯뒰뒱뒲뒳뒴뒵뒶뒷뒸뒹뒺뒻뒼뒽뒾뒿듀듁듂듃듄듅듆듇듈듉듊듋듌듍듎듏듐듑듒듓듔듕듖듗듘듙듚듛드득듞듟든듡듢듣들듥듦듧듨듩듪듫듬듭듮듯듰등듲듳듴듵듶듷듸듹듺듻듼듽듾듿떀떁떂떃떄떅떆떇떈떉떊떋떌떍떎떏떐떑떒떓떔떕떖떗떘떙떚떛떜떝떞떟떠떡떢떣떤떥떦떧떨떩떪떫떬떭떮떯떰떱떲떳떴떵떶떷떸떹떺떻떼떽떾떿뗀뗁뗂뗃뗄뗅뗆뗇뗈뗉뗊뗋뗌뗍뗎뗏뗐뗑뗒뗓뗔뗕뗖뗗뗘뗙뗚뗛뗜뗝뗞뗟뗠뗡뗢뗣뗤뗥뗦뗧뗨뗩뗪뗫뗬뗭뗮뗯뗰뗱뗲뗳뗴뗵뗶뗷뗸뗹뗺뗻뗼뗽뗾뗿뚀뚁뚂뚃뚄뚅뚆뚇뚈뚉뚊뚋뚌뚍뚎뚏뚐뚑뚒뚓뚔뚕뚖뚗뚘뚙뚚뚛뚜뚝뚞뚟뚠뚡뚢뚣뚤뚥뚦뚧뚨뚩뚪뚫뚬뚭뚮뚯뚰뚱뚲뚳뚴뚵뚶뚷뚸뚹뚺뚻뚼뚽뚾뚿뛀뛁뛂뛃뛄뛅뛆뛇뛈뛉뛊뛋뛌뛍뛎뛏뛐뛑뛒뛓뛔뛕뛖뛗뛘뛙뛚뛛뛜뛝뛞뛟뛠뛡뛢뛣뛤뛥뛦뛧뛨뛩뛪뛫뛬뛭뛮뛯뛰뛱뛲뛳뛴뛵뛶뛷뛸뛹뛺뛻뛼뛽뛾뛿란랁랂랃랄랅랆랇랈랉랊랋람랍랎랏랐랑랒랓랔랕랖랗래랙랚랛랜랝랞랟랠랡랢랣랤랥랦랧램랩랪랫랬랭랮랯랰랱랲랳랴략랶랷랸랹랺랻랼랽랾랿럀럁럂럃럄럅럆럇럈량럊럋럌럍럎럏럐럑럒럓럔럕럖럗럘럙럚럛럜럝럞럟럠럡럢럣럤럥럦럧럨럩럪럫러럭럮럯런럱럲럳럴럵럶럷럸럹럺럻럼럽럾럿뢀뢁뢂뢃뢄뢅뢆뢇뢈뢉뢊뢋뢌뢍뢎뢏뢐뢑뢒뢓뢔뢕뢖뢗뢘뢙뢚뢛뢜뢝뢞뢟뢠뢡뢢뢣뢤뢥뢦뢧뢨뢩뢪뢫뢬뢭뢮뢯뢰뢱뢲뢳뢴뢵뢶뢷뢸뢹뢺뢻뢼뢽뢾뢿룀룁룂룃룄룅룆룇룈룉룊룋료룍룎룏룐룑룒룓룔룕룖룗룘룙룚룛룜룝룞룟룠룡룢룣룤룥룦룧루룩룪룫룬룭룮룯룰룱룲룳룴룵룶룷룸룹룺룻룼룽룾룿릀릁릂릃름릅릆릇릈릉릊릋릌릍릎릏릐릑릒릓릔릕릖릗릘릙릚릛릜릝릞릟릠릡릢릣릤릥릦릧릨릩릪릫리릭릮릯린릱릲릳릴릵릶릷릸릹릺릻림립릾릿맀링맂맃맄맅맆맇마막맊맋만맍많맏말맑맒맓맔맕맖맗맘맙맚맛맜망맞맟맠맡맢맣매맥맦맧맨맩맪맫맬맭맮맯맰맱맲맳맴맵맶맷맸맹맺맻맼맽맾맿몀몁몂몃몄명몆몇몈몉몊몋몌몍몎몏몐몑몒몓몔몕몖몗몘몙몚몛몜몝몞몟몠몡몢몣몤몥몦몧모목몪몫몬몭몮몯몰몱몲몳몴몵몶몷몸몹몺못몼몽몾몿뫀뫁뫂뫃뫄뫅뫆뫇뫈뫉뫊뫋뫌뫍뫎뫏뫐뫑뫒뫓뫔뫕뫖뫗뫘뫙뫚뫛뫜뫝뫞뫟뫠뫡뫢뫣뫤뫥뫦뫧뫨뫩뫪뫫뫬뫭뫮뫯뫰뫱뫲뫳뫴뫵뫶뫷뫸뫹뫺뫻뫼뫽뫾뫿뮀뮁뮂뮃뮄뮅뮆뮇뮈뮉뮊뮋뮌뮍뮎뮏뮐뮑뮒뮓뮔뮕뮖뮗뮘뮙뮚뮛뮜뮝뮞뮟뮠뮡뮢뮣뮤뮥뮦뮧뮨뮩뮪뮫뮬뮭뮮뮯뮰뮱뮲뮳뮴뮵뮶뮷뮸뮹뮺뮻뮼뮽뮾뮿므믁믂믃믄믅믆믇믈믉믊믋믌믍믎믏믐믑믒믓믔믕믖믗믘믙믚믛믜믝믞믟믠믡믢믣믤믥믦믧믨믩믪믫믬믭믮믯믰믱믲믳믴믵믶믷미믹믺믻민믽믾믿벀벁벂벃버벅벆벇번벉벊벋벌벍벎벏벐벑벒벓범법벖벗벘벙벚벛벜벝벞벟베벡벢벣벤벥벦벧벨벩벪벫벬벭벮벯벰벱벲벳벴벵벶벷벸벹벺벻벼벽벾벿변볁볂볃별볅볆볇볈볉볊볋볌볍볎볏볐병볒볓볔볕볖볗볘볙볚볛볜볝볞볟볠볡볢볣볤볥볦볧볨볩볪볫볬볭볮볯볰볱볲볳보복볶볷본볹볺볻볼볽볾볿부북붂붃분붅붆붇불붉붊붋붌붍붎붏붐붑붒붓붔붕붖붗붘붙붚붛붜붝붞붟붠붡붢붣붤붥붦붧붨붩붪붫붬붭붮붯붰붱붲붳붴붵붶붷붸붹붺붻붼붽붾붿뷀뷁뷂뷃뷄뷅뷆뷇뷈뷉뷊뷋뷌뷍뷎뷏뷐뷑뷒뷓뷔뷕뷖뷗뷘뷙뷚뷛뷜뷝뷞뷟뷠뷡뷢뷣뷤뷥뷦뷧뷨뷩뷪뷫뷬뷭뷮뷯뷰뷱뷲뷳뷴뷵뷶뷷뷸뷹뷺뷻뷼뷽뷾뷿뺀뺁뺂뺃뺄뺅뺆뺇뺈뺉뺊뺋뺌뺍뺎뺏뺐뺑뺒뺓뺔뺕뺖뺗뺘뺙뺚뺛뺜뺝뺞뺟뺠뺡뺢뺣뺤뺥뺦뺧뺨뺩뺪뺫뺬뺭뺮뺯뺰뺱뺲뺳뺴뺵뺶뺷뺸뺹뺺뺻뺼뺽뺾뺿뻀뻁뻂뻃뻄뻅뻆뻇뻈뻉뻊뻋뻌뻍뻎뻏뻐뻑뻒뻓뻔뻕뻖뻗뻘뻙뻚뻛뻜뻝뻞뻟뻠뻡뻢뻣뻤뻥뻦뻧뻨뻩뻪뻫뻬뻭뻮뻯뻰뻱뻲뻳뻴뻵뻶뻷뻸뻹뻺뻻뻼뻽뻾뻿뾀뾁뾂뾃뾄뾅뾆뾇뾈뾉뾊뾋뾌뾍뾎뾏뾐뾑뾒뾓뾔뾕뾖뾗뾘뾙뾚뾛뾜뾝뾞뾟뾠뾡뾢뾣뾤뾥뾦뾧뾨뾩뾪뾫뾬뾭뾮뾯뾰뾱뾲뾳뾴뾵뾶뾷뾸뾹뾺뾻뾼뾽뾾뾿뿀뿁뿂뿃뿄뿅뿆뿇뿈뿉뿊뿋뿌뿍뿎뿏뿐뿑뿒뿓뿔뿕뿖뿗뿘뿙뿚뿛뿜뿝뿞뿟뿠뿡뿢뿣뿤뿥뿦뿧뿨뿩뿪뿫뿬뿭뿮뿯뿰뿱뿲뿳뿴뿵뿶뿷뿸뿹뿺뿻뿼뿽뿾뿿삀삁삂삃삄삅삆삇삈삉삊삋삌삍삎삏삐삑삒삓삔삕삖삗삘삙삚삛삜삝삞삟삠삡삢삣삤삥삦삧삨삩삪삫사삭삮삯산삱삲삳살삵삶삷삸삹삺삻삼삽삾삿샀상샂샃샄샅샆샇새색샊샋샌샍샎샏샐샑샒샓샔샕샖샗샘샙샚샛샜생샞샟샠샡샢샣샤샥샦샧샨샩샪샫샬샭샮샯샰샱샲샳샴샵샶샷샸샹샺샻샼샽샾샿솀솁솂솃솄솅솆솇솈솉솊솋소속솎솏손솑솒솓솔솕솖솗솘솙솚솛솜솝솞솟솠송솢솣솤솥솦솧솨솩솪솫솬솭솮솯솰솱솲솳솴솵솶솷솸솹솺솻솼솽솾솿쇀쇁쇂쇃쇄쇅쇆쇇쇈쇉쇊쇋쇌쇍쇎쇏쇐쇑쇒쇓쇔쇕쇖쇗쇘쇙쇚쇛쇜쇝쇞쇟쇠쇡쇢쇣쇤쇥쇦쇧쇨쇩쇪쇫쇬쇭쇮쇯쇰쇱쇲쇳쇴쇵쇶쇷쇸쇹쇺쇻쇼쇽쇾쇿슀슁슂슃슄슅슆슇슈슉슊슋슌슍슎슏슐슑슒슓슔슕슖슗슘슙슚슛슜슝슞슟슠슡슢슣스슥슦슧슨슩슪슫슬슭슮슯슰슱슲슳슴습슶슷슸승슺슻슼슽슾슿싀싁싂싃싄싅싆싇싈싉싊싋싌싍싎싏싐싑싒싓싔싕싖싗싘싙싚싛시식싞싟신싡싢싣실싥싦싧싨싩싪싫심십싮싯싰싱싲싳싴싵싶싷싸싹싺싻싼싽싾싿쎀쎁쎂쎃쎄쎅쎆쎇쎈쎉쎊쎋쎌쎍쎎쎏쎐쎑쎒쎓쎔쎕쎖쎗쎘쎙쎚쎛쎜쎝쎞쎟쎠쎡쎢쎣쎤쎥쎦쎧쎨쎩쎪쎫쎬쎭쎮쎯쎰쎱쎲쎳쎴쎵쎶쎷쎸쎹쎺쎻쎼쎽쎾쎿쏀쏁쏂쏃쏄쏅쏆쏇쏈쏉쏊쏋쏌쏍쏎쏏쏐쏑쏒쏓쏔쏕쏖쏗쏘쏙쏚쏛쏜쏝쏞쏟쏠쏡쏢쏣쏤쏥쏦쏧쏨쏩쏪쏫쏬쏭쏮쏯쏰쏱쏲쏳쏴쏵쏶쏷쏸쏹쏺쏻쏼쏽쏾쏿쒀쒁쒂쒃쒄쒅쒆쒇쒈쒉쒊쒋쒌쒍쒎쒏쒐쒑쒒쒓쒔쒕쒖쒗쒘쒙쒚쒛쒜쒝쒞쒟쒠쒡쒢쒣쒤쒥쒦쒧쒨쒩쒪쒫쒬쒭쒮쒯쒰쒱쒲쒳쒴쒵쒶쒷쒸쒹쒺쒻쒼쒽쒾쒿쓀쓁쓂쓃쓄쓅쓆쓇쓈쓉쓊쓋쓌쓍쓎쓏쓐쓑쓒쓓쓔쓕쓖쓗쓘쓙쓚쓛쓜쓝쓞쓟쓠쓡쓢쓣쓤쓥쓦쓧쓨쓩쓪쓫쓬쓭쓮쓯쓰쓱쓲쓳쓴쓵쓶쓷쓸쓹쓺쓻쓼쓽쓾쓿얀얁얂얃얄얅얆얇얈얉얊얋얌얍얎얏얐양얒얓얔얕얖얗얘얙얚얛얜얝얞얟얠얡얢얣얤얥얦얧얨얩얪얫얬얭얮얯얰얱얲얳어억얶얷언얹얺얻얼얽얾얿엀엁엂엃엄업없엇었엉엊엋엌엍엎엏에엑엒엓엔엕엖엗엘엙엚엛엜엝엞엟엠엡엢엣엤엥엦엧엨엩엪엫여역엮엯연엱엲엳열엵엶엷엸엹엺엻염엽엾엿욀욁욂욃욄욅욆욇욈욉욊욋욌욍욎욏욐욑욒욓요욕욖욗욘욙욚욛욜욝욞욟욠욡욢욣욤욥욦욧욨용욪욫욬욭욮욯우욱욲욳운욵욶욷울욹욺욻욼욽욾욿움웁웂웃웄웅웆웇웈웉웊웋워웍웎웏원웑웒웓월웕웖웗웘웙웚웛웜웝웞웟웠웡웢웣웤웥웦웧웨웩웪웫웬웭웮웯웰웱웲웳웴웵웶웷웸웹웺웻웼웽웾웿잀잁잂잃임입잆잇있잉잊잋잌잍잎잏자작잒잓잔잕잖잗잘잙잚잛잜잝잞잟잠잡잢잣잤장잦잧잨잩잪잫재잭잮잯잰잱잲잳잴잵잶잷잸잹잺잻잼잽잾잿쟀쟁쟂쟃쟄쟅쟆쟇쟈쟉쟊쟋쟌쟍쟎쟏쟐쟑쟒쟓쟔쟕쟖쟗쟘쟙쟚쟛쟜쟝쟞쟟쟠쟡쟢쟣쟤쟥쟦쟧쟨쟩쟪쟫쟬쟭쟮쟯쟰쟱쟲쟳쟴쟵쟶쟷쟸쟹쟺쟻쟼쟽쟾쟿좀좁좂좃좄종좆좇좈좉좊좋좌좍좎좏좐좑좒좓좔좕좖좗좘좙좚좛좜좝좞좟좠좡좢좣좤좥좦좧좨좩좪좫좬좭좮좯좰좱좲좳좴좵좶좷좸좹좺좻좼좽좾좿죀죁죂죃죄죅죆죇죈죉죊죋죌죍죎죏죐죑죒죓죔죕죖죗죘죙죚죛죜죝죞죟죠죡죢죣죤죥죦죧죨죩죪죫죬죭죮죯죰죱죲죳죴죵죶죷죸죹죺죻주죽죾죿즀즁즂즃즄즅즆즇즈즉즊즋즌즍즎즏즐즑즒즓즔즕즖즗즘즙즚즛즜증즞즟즠즡즢즣즤즥즦즧즨즩즪즫즬즭즮즯즰즱즲즳즴즵즶즷즸즹즺즻즼즽즾즿지직짂짃진짅짆짇질짉짊짋짌짍짎짏짐집짒짓짔징짖짗짘짙짚짛짜짝짞짟짠짡짢짣짤짥짦짧짨짩짪짫짬짭짮짯짰짱짲짳짴짵짶짷째짹짺짻짼짽짾짿쪀쪁쪂쪃쪄쪅쪆쪇쪈쪉쪊쪋쪌쪍쪎쪏쪐쪑쪒쪓쪔쪕쪖쪗쪘쪙쪚쪛쪜쪝쪞쪟쪠쪡쪢쪣쪤쪥쪦쪧쪨쪩쪪쪫쪬쪭쪮쪯쪰쪱쪲쪳쪴쪵쪶쪷쪸쪹쪺쪻쪼쪽쪾쪿쫀쫁쫂쫃쫄쫅쫆쫇쫈쫉쫊쫋쫌쫍쫎쫏쫐쫑쫒쫓쫔쫕쫖쫗쫘쫙쫚쫛쫜쫝쫞쫟쫠쫡쫢쫣쫤쫥쫦쫧쫨쫩쫪쫫쫬쫭쫮쫯쫰쫱쫲쫳쫴쫵쫶쫷쫸쫹쫺쫻쫼쫽쫾쫿쮀쮁쮂쮃쮄쮅쮆쮇쮈쮉쮊쮋쮌쮍쮎쮏쮐쮑쮒쮓쮔쮕쮖쮗쮘쮙쮚쮛쮜쮝쮞쮟쮠쮡쮢쮣쮤쮥쮦쮧쮨쮩쮪쮫쮬쮭쮮쮯쮰쮱쮲쮳쮴쮵쮶쮷쮸쮹쮺쮻쮼쮽쮾쮿쯀쯁쯂쯃쯄쯅쯆쯇쯈쯉쯊쯋쯌쯍쯎쯏쯐쯑쯒쯓쯔쯕쯖쯗쯘쯙쯚쯛쯜쯝쯞쯟쯠쯡쯢쯣쯤쯥쯦쯧쯨쯩쯪쯫쯬쯭쯮쯯쯰쯱쯲쯳쯴쯵쯶쯷쯸쯹쯺쯻쯼쯽쯾쯿첀첁첂첃첄첅첆첇첈첉첊첋첌첍첎첏첐첑첒첓첔첕첖첗처척첚첛천첝첞첟철첡첢첣첤첥첦첧첨첩첪첫첬청첮첯첰첱첲첳체첵첶첷첸첹첺첻첼첽첾첿쳀쳁쳂쳃쳄쳅쳆쳇쳈쳉쳊쳋쳌쳍쳎쳏쳐쳑쳒쳓쳔쳕쳖쳗쳘쳙쳚쳛쳜쳝쳞쳟쳠쳡쳢쳣쳤쳥쳦쳧쳨쳩쳪쳫쳬쳭쳮쳯쳰쳱쳲쳳쳴쳵쳶쳷쳸쳹쳺쳻쳼쳽쳾쳿춀춁춂춃춄춅춆춇춈춉춊춋춌춍춎춏춐춑춒춓추축춖춗춘춙춚춛출춝춞춟춠춡춢춣춤춥춦춧춨충춪춫춬춭춮춯춰춱춲춳춴춵춶춷춸춹춺춻춼춽춾춿췀췁췂췃췄췅췆췇췈췉췊췋췌췍췎췏췐췑췒췓췔췕췖췗췘췙췚췛췜췝췞췟췠췡췢췣췤췥췦췧취췩췪췫췬췭췮췯췰췱췲췳췴췵췶췷췸췹췺췻췼췽췾췿캀캁캂캃캄캅캆캇캈캉캊캋캌캍캎캏캐캑캒캓캔캕캖캗캘캙캚캛캜캝캞캟캠캡캢캣캤캥캦캧캨캩캪캫캬캭캮캯캰캱캲캳캴캵캶캷캸캹캺캻캼캽캾캿컀컁컂컃컄컅컆컇컈컉컊컋컌컍컎컏컐컑컒컓컔컕컖컗컘컙컚컛컜컝컞컟컠컡컢컣커컥컦컧컨컩컪컫컬컭컮컯컰컱컲컳컴컵컶컷컸컹컺컻컼컽컾컿쾀쾁쾂쾃쾄쾅쾆쾇쾈쾉쾊쾋쾌쾍쾎쾏쾐쾑쾒쾓쾔쾕쾖쾗쾘쾙쾚쾛쾜쾝쾞쾟쾠쾡쾢쾣쾤쾥쾦쾧쾨쾩쾪쾫쾬쾭쾮쾯쾰쾱쾲쾳쾴쾵쾶쾷쾸쾹쾺쾻쾼쾽쾾쾿쿀쿁쿂쿃쿄쿅쿆쿇쿈쿉쿊쿋쿌쿍쿎쿏쿐쿑쿒쿓쿔쿕쿖쿗쿘쿙쿚쿛쿜쿝쿞쿟쿠쿡쿢쿣쿤쿥쿦쿧쿨쿩쿪쿫쿬쿭쿮쿯쿰쿱쿲쿳쿴쿵쿶쿷쿸쿹쿺쿻쿼쿽쿾쿿킀킁킂킃킄킅킆킇킈킉킊킋킌킍킎킏킐킑킒킓킔킕킖킗킘킙킚킛킜킝킞킟킠킡킢킣키킥킦킧킨킩킪킫킬킭킮킯킰킱킲킳킴킵킶킷킸킹킺킻킼킽킾킿타탁탂탃탄탅탆탇탈탉탊탋탌탍탎탏탐탑탒탓탔탕탖탗탘탙탚탛태택탞탟탠탡탢탣탤탥탦탧탨탩탪탫탬탭탮탯탰탱탲탳탴탵탶탷탸탹탺탻탼탽탾탿톀톁톂톃톄톅톆톇톈톉톊톋톌톍톎톏톐톑톒톓톔톕톖톗톘톙톚톛톜톝톞톟토톡톢톣톤톥톦톧톨톩톪톫톬톭톮톯톰톱톲톳톴통톶톷톸톹톺톻톼톽톾톿퇀퇁퇂퇃퇄퇅퇆퇇퇈퇉퇊퇋퇌퇍퇎퇏퇐퇑퇒퇓퇔퇕퇖퇗퇘퇙퇚퇛퇜퇝퇞퇟퇠퇡퇢퇣퇤퇥퇦퇧퇨퇩퇪퇫퇬퇭퇮퇯퇰퇱퇲퇳퇴퇵퇶퇷퇸퇹퇺퇻퇼퇽퇾퇿튀튁튂튃튄튅튆튇튈튉튊튋튌튍튎튏튐튑튒튓튔튕튖튗튘튙튚튛튜튝튞튟튠튡튢튣튤튥튦튧튨튩튪튫튬튭튮튯튰튱튲튳튴튵튶튷트특튺튻튼튽튾튿틀틁틂틃틄틅틆틇틈틉틊틋틌틍틎틏틐틑틒틓틔틕틖틗틘틙틚틛틜틝틞틟틠틡틢틣틤틥틦틧틨틩틪틫틬틭틮틯티틱틲틳틴틵틶틷틸틹틺틻틼틽틾틿펀펁펂펃펄펅펆펇펈펉펊펋펌펍펎펏펐펑펒펓펔펕펖펗페펙펚펛펜펝펞펟펠펡펢펣펤펥펦펧펨펩펪펫펬펭펮펯펰펱펲펳펴펵펶펷편펹펺펻펼펽펾펿폀폁폂폃폄폅폆폇폈평폊폋폌폍폎폏폐폑폒폓폔폕폖폗폘폙폚폛폜폝폞폟폠폡폢폣폤폥폦폧폨폩폪폫포폭폮폯폰폱폲폳폴폵폶폷폸폹폺폻폼폽폾폿풀풁풂풃풄풅풆풇품풉풊풋풌풍풎풏풐풑풒풓풔풕풖풗풘풙풚풛풜풝풞풟풠풡풢풣풤풥풦풧풨풩풪풫풬풭풮풯풰풱풲풳풴풵풶풷풸풹풺풻풼풽풾풿퓀퓁퓂퓃퓄퓅퓆퓇퓈퓉퓊퓋퓌퓍퓎퓏퓐퓑퓒퓓퓔퓕퓖퓗퓘퓙퓚퓛퓜퓝퓞퓟퓠퓡퓢퓣퓤퓥퓦퓧퓨퓩퓪퓫퓬퓭퓮퓯퓰퓱퓲퓳퓴퓵퓶퓷퓸퓹퓺퓻퓼퓽퓾퓿햀햁햂햃햄햅햆햇했행햊햋햌햍햎햏햐햑햒햓햔햕햖햗햘햙햚햛햜햝햞햟햠햡햢햣햤향햦햧햨햩햪햫햬햭햮햯햰햱햲햳햴햵햶햷햸햹햺햻햼햽햾햿헀헁헂헃헄헅헆헇허헉헊헋헌헍헎헏헐헑헒헓헔헕헖헗험헙헚헛헜헝헞헟헠헡헢헣헤헥헦헧헨헩헪헫헬헭헮헯헰헱헲헳헴헵헶헷헸헹헺헻헼헽헾헿횀횁횂횃횄횅횆횇횈횉횊횋회획횎횏횐횑횒횓횔횕횖횗횘횙횚횛횜횝횞횟횠횡횢횣횤횥횦횧효횩횪횫횬횭횮횯횰횱횲횳횴횵횶횷횸횹횺횻횼횽횾횿훀훁훂훃후훅훆훇훈훉훊훋훌훍훎훏훐훑훒훓훔훕훖훗훘훙훚훛훜훝훞훟훠훡훢훣훤훥훦훧훨훩훪훫훬훭훮훯훰훱훲훳훴훵훶훷훸훹훺훻훼훽훾훿힀힁힂힃힄힅힆힇히힉힊힋힌힍힎힏힐힑힒힓힔힕힖힗힘힙힚힛힜힝힞힟힠힡힢힣힤힥힦힧힨힩힪힫힬힭힮힯ힰힱힲힳힴힵힶힷힸힹힺힻힼힽힾힿퟀퟁퟂퟃퟄퟅퟆ퟇퟈퟉퟊ퟋퟌퟍퟎퟏퟐퟑퟒퟓퟔퟕퟖퟗퟘퟙퟚퟛퟜퟝퟞퟟퟠퟡퟢퟣퟤퟥퟦퟧퟨퟩퟪퟫퟬퟭퟮퟯퟰퟱퟲퟳퟴퟵퟶퟷퟸퟹퟺퟻ퟼퟽퟾퟿                                                                                                                                                                                                                                                                                                                                                                                                                                                                                                                                                                                                                                                                                                                                                                                                                                                                                                                                                                                                                                                                呂女廬旅濾礪閭驪麗黎力曆歷轢年憐戀撚漣煉璉秊練聯輦蓮連鍊列劣咽烈裂說廉念捻殮簾獵令囹寧嶺怜玲瑩羚聆鈴零靈領例禮醴隸惡了僚寮尿料樂燎療蓼遼龍暈阮劉杻柳流溜琉留硫紐類六戮陸倫崙淪輪律慄栗率隆利吏履易李梨泥理痢罹裏裡里離匿溺吝燐璘藺隣鱗麟林淋臨立笠粒狀炙識什茶刺婢嬨廒廙彩徭惘慎愈憎慠懲戴揄搜摒敖晴朗望杖歹殺流滛滋漢瀞煮瞧爵犯猪瑱甆画瘝瘟益盛直睊着磌窱節类絛練缾者荒華蝹襁覆視調諸請謁諾諭謹變贈輸遲醙鉶陼難靖韛響頋頻鬒龜𢡊𢡄𣏕㮝䀘䀹𥉉𥳐𧻓齃龎﫚﫛﫜﫝﫞﫟﫠﫡﫢﫣﫤﫥﫦﫧﫨﫩﫪﫫﫬﫭﫮﫯﫰﫱﫲﫳﫴﫵﫶﫷﫸﫹﫺﫻﫼﫽﫾﫿ﮀﮁﮂﮃﮄﮅﮆﮇﮈﮉﮊﮋﮌﮍﮎﮏﮐﮑﮒﮓﮔﮕﮖﮗﮘﮙﮚﮛﮜﮝﮞﮟﮠﮡﮢﮣﮤﮥﮦﮧﮨﮩﮪﮫﮬﮭﮮﮯﮰﮱ﮲﮳﮴﮵﮶﮷﮸﮹﮺﮻﮼﮽﮾﮿﯀﯁﯂﯃﯄﯅﯆﯇﯈﯉﯊﯋﯌﯍﯎﯏﯐﯑﯒ﯓﯔﯕﯖﯗﯘﯙﯚﯛﯜﯝﯞﯟﯠﯡﯢﯣﯤﯥﯦﯧﯨﯩﯪﯫﯬﯭﯮﯯﯰﯱﯲﯳﯴﯵﯶﯷﯸﯹﯺﯻﯼﯽﯾﯿﲀﲁﲂﲃﲄﲅﲆﲇﲈﲉﲊﲋﲌﲍﲎﲏﲐﲑﲒﲓﲔﲕﲖﲗﲘﲙﲚﲛﲜﲝﲞﲟﲠﲡﲢﲣﲤﲥﲦﲧﲨﲩﲪﲫﲬﲭﲮﲯﲰﲱﲲﲳﲴﲵﲶﲷﲸﲹﲺﲻﲼﲽﲾﲿﳀﳁﳂﳃﳄﳅﳆﳇﳈﳉﳊﳋﳌﳍﳎﳏﳐﳑﳒﳓﳔﳕﳖﳗﳘﳙﳚﳛﳜﳝﳞﳟﳠﳡﳢﳣﳤﳥﳦﳧﳨﳩﳪﳫﳬﳭﳮﳯﳰﳱﳲﳳﳴﳵﳶﳷﳸﳹﳺﳻﳼﳽﳾﳿﶀﶁﶂﶃﶄﶅﶆﶇﶈﶉﶊﶋﶌﶍﶎﶏ﶐﶑ﶒﶓﶔﶕﶖﶗﶘﶙﶚﶛﶜﶝﶞﶟﶠﶡﶢﶣﶤﶥﶦﶧﶨﶩﶪﶫﶬﶭﶮﶯﶰﶱﶲﶳﶴﶵﶶﶷﶸﶹﶺﶻﶼﶽﶾﶿﷀﷁﷂﷃﷄﷅﷆﷇ﷈﷉﷊﷋﷌﷍﷎﷏﷐﷑﷒﷓﷔﷕﷖﷗﷘﷙﷚﷛﷜﷝﷞﷟﷠﷡﷢﷣﷤﷥﷦﷧﷨﷩﷪﷫﷬﷭﷮﷯ﷰﷱﷲﷳﷴﷵﷶﷷﷸﷹﷺﷻ﷼﷽﷾﷿ﺀﺁﺂﺃﺄﺅﺆﺇﺈﺉﺊﺋﺌﺍﺎﺏﺐﺑﺒﺓﺔﺕﺖﺗﺘﺙﺚﺛﺜﺝﺞﺟﺠﺡﺢﺣﺤﺥﺦﺧﺨﺩﺪﺫﺬﺭﺮﺯﺰﺱﺲﺳﺴﺵﺶﺷﺸﺹﺺﺻﺼﺽﺾﺿﻀﻁﻂﻃﻄﻅﻆﻇﻈﻉﻊﻋﻌﻍﻎﻏﻐﻑﻒﻓﻔﻕﻖﻗﻘﻙﻚﻛﻜﻝﻞﻟﻠﻡﻢﻣﻤﻥﻦﻧﻨﻩﻪﻫﻬﻭﻮﻯﻰﻱﻲﻳﻴﻵﻶﻷﻸﻹﻺﻻﻼ﻽﻾﻿ﾀﾁﾂﾃﾄﾅﾆﾇﾈﾉﾊﾋﾌﾍﾎﾏﾐﾑﾒﾓﾔﾕﾖﾗﾘﾙﾚﾛﾜﾝﾞﾟﾠﾡﾢﾣﾤﾥﾦﾧﾨﾩﾪﾫﾬﾭﾮﾯﾰﾱﾲﾳﾴﾵﾶﾷﾸﾹﾺﾻﾼﾽﾾ﾿￀￁ￂￃￄￅￆￇ￈￉ￊￋￌￍￎￏ￐￑ￒￓￔￕￖￗ￘￙ￚￛￜ￝￞￟￠￡￢￣￤￥￦￧￨￩￪￫￬￭￮￯￰￱￲￳￴￵￶￷￸￹￺￻￼�￾￿"
HexDigits == "0123456789abcdef"

\* the six hexadecimal digits of the code point p
Hex6(p) ==
    Char(HexDigits, ((p \div 1048576) % 16) + 1) \o Char(HexDigits, ((p \div 65536) % 16) + 1)
    \o Char(HexDigits, ((p \div 4096) % 16) + 1) \o Char(HexDigits, ((p \div 256) % 16) + 1)
    \o Char(HexDigits, ((p \div 16) % 16) + 1) \o Char(HexDigits, (p % 16) + 1)

\* the value of the digit c of HexDigits
HexDigitValue(c) == (CHOOSE i \in 1..16 : Char(HexDigits, i) = c) - 1

\* t is a character written with Marker
IsToken(t) ==
    /\ Len(t) = 7
    /\ Char(t, 1) = Marker
    /\ \A i \in 2..7 : \E k \in 1..16 : Char(HexDigits, k) = Char(t, i)

\* the first and the last character of the string s, which is not empty
First(s) ==
    IF Char(s, 1) = Marker /\ Len(s) >= 7 /\ IsToken(SubSeq(s, 1, 7))
    THEN SubSeq(s, 1, 7) ELSE Char(s, 1)
Last(s) ==
    IF Len(s) >= 7 /\ IsToken(SubSeq(s, Len(s) - 6, Len(s)))
    THEN SubSeq(s, Len(s) - 6, Len(s)) ELSE Char(s, Len(s))

\* the character with the code point p
CharOf(p) ==
    IF p >= 1 /\ p <= 255 /\ p # 96 THEN Char(Latin1, p)
    ELSE IF /\ p >= 256 /\ p <= 65535 /\ p % 256 >= 128
            /\ (p < 55296 \/ p > 57343) /\ p # 59528
         THEN Char(HighChars, ((p \div 256) - 1) * 128 + (p % 256) - 127)
    ELSE Marker \o Hex6(p)

\* the code point of the character c
CodePoint(c) ==
    IF Len(c) = 7
    THEN HexDigitValue(Char(c, 2)) * 1048576 + HexDigitValue(Char(c, 3)) * 65536
         + HexDigitValue(Char(c, 4)) * 4096 + HexDigitValue(Char(c, 5)) * 256
         + HexDigitValue(Char(c, 6)) * 16 + HexDigitValue(Char(c, 7))
    ELSE IF \E i \in 1..255 : i # 96 /\ Char(Latin1, i) = c
    THEN CHOOSE i \in 1..255 : i # 96 /\ Char(Latin1, i) = c
    ELSE LET At(i) == (((i - 1) \div 128) + 1) * 256 + 128 + ((i - 1) % 128)
         IN At(CHOOSE i \in 1..Len(HighChars) : Char(HighChars, i) = c)

\* c is a control character (below U+0020)
IsControl(c) == c = CharOf(0) \/ \E i \in 1..31 : Char(Latin1, i) = c

\* c is a character of ASCII (below U+0080)
IsASCII(c) == c = CharOf(0) \/ c = CharOf(96) \/ \E i \in 1..127 : i # 96 /\ Char(Latin1, i) = c

\* the characters unicode.IsSpace accepts: tab, line feed, vertical tab
\* (U+000B), form feed, carriage return, space, U+0085 (NEL), U+00A0
\* (no-break space), U+1680, U+2000 to U+200A, U+2028, U+2029, U+202F,
\* U+205F and U+3000
White ==
    {CharOf(p) : p \in (9..13) \cup {32, 133, 160, 5760} \cup (8192..8202)
                       \cup {8232, 8233, 8239, 8287, 12288}}

IsDigit(c) == \E i \in 1..10 : Digits[i] = c
DigitOf(c) == (CHOOSE i \in 1..10 : Digits[i] = c) - 1

RECURSIVE AllDigits(_)
AllDigits(s) == s = "" \/ (IsDigit(Char(s, 1)) /\ AllDigits(SubSeq(s, 2, Len(s))))

RECURSIVE DropZeros(_)
DropZeros(s) ==
    IF Len(s) > 1 /\ Char(s, 1) = "0" THEN DropZeros(SubSeq(s, 2, Len(s))) ELSE s

\* a <= b for two strings of digits of the same length
RECURSIVE DigitsLeq(_, _)
DigitsLeq(a, b) ==
    IF a = "" THEN TRUE
    ELSE IF DigitOf(Char(a, 1)) # DigitOf(Char(b, 1))
         THEN DigitOf(Char(a, 1)) < DigitOf(Char(b, 1))
         ELSE DigitsLeq(SubSeq(a, 2, Len(a)), SubSeq(b, 2, Len(b)))

\* A Go int has 64 bits and holds numbers an integer of the model checker
\* cannot.  A Go int that is read from or written to a text is therefore the
\* record of its sign and of the decimal digits of its magnitude, the most
\* significant first and without leading zeros; zero is not negative.
Int64(neg, mag) == [neg |-> neg /\ mag # <<0>>, mag |-> mag]
MaxInt64Digits == "9223372036854775807"
MinInt64Digits == "9223372036854775808"

\* the digits of the string of digits s
RECURSIVE MagOfDigits(_)
MagOfDigits(s) ==
    IF s = "" THEN <<>>
    ELSE <<DigitOf(Char(s, 1))>> \o MagOfDigits(SubSeq(s, 2, Len(s)))

\* the digits of the natural number n
RECURSIVE MagOf(_)
MagOf(n) == IF n < 10 THEN <<n>> ELSE Append(MagOf(n \div 10), n % 10)

\* the Go int with the value of the integer n
ToInt64(n) == IF n < 0 THEN Int64(TRUE, MagOf(0 - n)) ELSE Int64(FALSE, MagOf(n))

RECURSIVE NatOfMag(_)
NatOfMag(mag) ==
    IF mag = <<>> THEN 0
    ELSE 10 * NatOfMag(SubSeq(mag, 1, Len(mag) - 1)) + mag[Len(mag)]

\* the value of the Go int v as an integer, for a v of at most nine digits
IntOf(v) == IF v.neg THEN 0 - NatOfMag(v.mag) ELSE NatOfMag(v.mag)

\* v >= k and v > k for a Go int v and an integer k of at most nine digits
Int64Geq(v, k) == IF Len(v.mag) > 9 THEN ~v.neg ELSE IntOf(v) >= k
Int64Gt(v, k) == IF Len(v.mag) > 9 THEN ~v.neg ELSE IntOf(v) > k

\* magnitude + 1
RECURSIVE MagInc(_)
MagInc(mag) ==
    IF mag = <<>> THEN <<1>>
    ELSE IF mag[Len(mag)] < 9
         THEN Append(SubSeq(mag, 1, Len(mag) - 1), mag[Len(mag)] + 1)
         ELSE Append(MagInc(SubSeq(mag, 1, Len(mag) - 1)), 0)

\* magnitude - 1, for a magnitude that is not zero
RECURSIVE MagDec(_)
MagDec(mag) ==
    IF mag[Len(mag)] > 0
    THEN Append(SubSeq(mag, 1, Len(mag) - 1), mag[Len(mag)] - 1)
    ELSE Append(MagDec(SubSeq(mag, 1, Len(mag) - 1)), 9)

RECURSIVE MagNorm(_)
MagNorm(mag) ==
    IF Len(mag) > 1 /\ mag[1] = 0 THEN MagNorm(Tail(mag)) ELSE mag

\* v++ on a Go int: the largest int wraps around to the smallest
Int64Inc(v) ==
    IF v.neg THEN Int64(TRUE, MagNorm(MagDec(v.mag)))
    ELSE IF v.mag = MagOfDigits(MaxInt64Digits)
         THEN Int64(TRUE, MagOfDigits(MinInt64Digits))
         ELSE Int64(FALSE, MagInc(v.mag))

\* fmt.Sprintf("%d", v), strconv.Itoa(v)
RECURSIVE ItoaMag(_)
ItoaMag(mag) ==
    IF mag = <<>> THEN "" ELSE Digits[Head(mag) + 1] \o ItoaMag(Tail(mag))
Itoa(v) == IF v.neg THEN "-" \o ItoaMag(v.mag) ELSE ItoaMag(v.mag)

\* strconv.Atoi: [ok, n]; ok = FALSE is the parse error (syntax or range)
Atoi(s) ==
    LET signed == s # "" /\ Char(s, 1) \in {"+", "-"}
        neg == s # "" /\ Char(s, 1) = "-"
        body == IF signed THEN SubSeq(s, 2, Len(s)) ELSE s
        sig == DropZeros(body)
        limit == IF neg THEN MinInt64Digits ELSE MaxInt64Digits
    IN IF body = "" \/ ~AllDigits(body) THEN [ok |-> FALSE, n |-> Int64(FALSE, <<0>>)]
       ELSE IF Len(sig) < Len(limit) \/ (Len(sig) = Len(limit) /\ DigitsLeq(sig, limit))
            THEN [ok |-> TRUE, n |-> Int64(neg, MagOfDigits(sig))]
       ELSE [ok |-> FALSE, n |-> Int64(FALSE, <<0>>)]

\* strings.TrimSpace
RECURSIVE TrimLeftSpace(_)
TrimLeftSpace(s) ==
    IF s # "" /\ First(s) \in White
    THEN TrimLeftSpace(SubSeq(s, Len(First(s)) + 1, Len(s))) ELSE s

RECURSIVE TrimRightSpace(_)
TrimRightSpace(s) ==
    IF s # "" /\ Last(s) \in White
    THEN TrimRightSpace(SubSeq(s, 1, Len(s) - Len(Last(s))))
    ELSE s

TrimSpace(s) == TrimRightSpace(TrimLeftSpace(s))

\* strings.Index(s, sub), counted from 1; 0 when sub does not occur
RECURSIVE IndexFrom(_, _, _)
IndexFrom(s, sub, i) ==
    IF i + Len(sub) - 1 > Len(s) THEN 0
    ELSE IF SubSeq(s, i, i + Len(sub) - 1) = sub THEN i
    ELSE IndexFrom(s, sub, i + 1)

Index(s, sub) == IndexFrom(s, sub, 1)

\* strings.Split(s, sep)
RECURSIVE Split(_, _)
Split(s, sep) ==
    LET i == Index(s, sep)
    IN IF i = 0 THEN <<s>>
       ELSE <<SubSeq(s, 1, i - 1)>> \o Split(SubSeq(s, i + Len(sep), Len(s)), sep)

\* strings.Split(s, "\n")
SplitLines(s) == Split(s, "\n")

\* strings.Split(s, ",")
SplitCommas(s) == Split(s, ",")

\* strings.Join(parts, "\n")
RECURSIVE JoinLines(_)
JoinLines(parts) ==
    IF Len(parts) = 0 THEN ""
    ELSE IF Len(parts) = 1 THEN parts[1]
    ELSE parts[1] \o "\n" \o JoinLines(Tail(parts))

----------------------------------------------------------------------------
(* QueueMetadata codec (queue_metadata.go) *)

\* fmt.Sprintf("k: %s", v)
Line(k, v) == k \o ": " \o v
DelimLine == queueMetadataDelimiter
Text(s) == s

\* the zero value of the QueueMetadata struct
ZeroMeta ==
    [TargetRig |-> "", Formula |-> "", Args |-> "", Vars |-> "",
     EnqueuedAt |-> "", Merge |-> "", Convoy |-> "", BaseBranch |-> "",
     NoMerge |-> FALSE, Account |-> "", Agent |-> "", HookRawBead |-> FALSE,
     Owned |-> FALSE, DispatchFailures |-> ToInt64(0), LastFailure |-> ""]

\* NewQueueMetadata(rigName); now is time.Now() formatted as RFC3339
NewQueueMetadata(rigName, now) ==
    [ZeroMeta EXCEPT !.TargetRig = rigName, !.EnqueuedAt = now]

When(cond, lines) == IF cond THEN lines ELSE <<>>

RECURSIVE VarLines(_)
VarLines(parts) ==
    IF parts = <<>> THEN <<>>
    ELSE When(TrimSpace(Head(parts)) # "",
              <<Line("var", TrimSpace(Head(parts)))>>) \o VarLines(Tail(parts))

\* fmt.Sprintf("key: %s", v): the lines it adds to the text; a line break in
\* v starts a new line
FieldLines(k, v) == SplitLines(Line(k, v))

FormatQueueMetadata(m) ==
    <<DelimLine>>
    \o When(m.TargetRig # "", FieldLines("target_rig", m.TargetRig))
    \o When(m.Formula # "", FieldLines("formula", m.Formula))
    \o When(m.Args # "", FieldLines("args", m.Args))
    \o VarLines(SplitLines(m.Vars))
    \o When(m.EnqueuedAt # "", FieldLines("enqueued_at", m.EnqueuedAt))
    \o When(m.Merge # "", FieldLines("merge", m.Merge))
    \o When(m.Convoy # "", FieldLines("convoy", m.Convoy))
    \o When(m.BaseBranch # "", FieldLines("base_branch", m.BaseBranch))
    \o When(m.NoMerge, <<Line("no_merge", "true")>>)
    \o When(m.Account # "", FieldLines("account", m.Account))
    \o When(m.Agent # "", FieldLines("agent", m.Agent))
    \o When(m.HookRawBead, <<Line("hook_raw_bead", "true")>>)
    \o When(m.Owned, <<Line("owned", "true")>>)
    \o When(Int64Gt(m.DispatchFailures, 0),
            <<Line("dispatch_failures", Itoa(m.DispatchFailures))>>)
    \o When(m.LastFailure # "", FieldLines("last_failure", m.LastFailure))

\* strings.Index(description, queueMetadataDelimiter): the line of the first
\* occurrence (0 when absent) and its column in that line
DelimIndex(description) ==
    IF \E i \in 1..Len(description) : Index(description[i], queueMetadataDelimiter) # 0
    THEN CHOOSE i \in 1..Len(description) :
            /\ Index(description[i], queueMetadataDelimiter) # 0
            /\ \A j \in 1..(i - 1) : Index(description[j], queueMetadataDelimiter) = 0
    ELSE 0

DelimColumn(description) ==
    Index(description[DelimIndex(description)], queueMetadataDelimiter)

\* description[:idx], as lines
BeforeDelim(description) ==
    LET i == DelimIndex(description)
    IN SubSeq(description, 1, i - 1)
       \o <<SubSeq(description[i], 1, DelimColumn(description) - 1)>>

\* description[idx+len(queueMetadataDelimiter):], as lines
AfterDelim(description) ==
    LET i == DelimIndex(description)
        l == description[i]
    IN <<SubSeq(l, DelimColumn(description) + Len(queueMetadataDelimiter), Len(l))>>
       \o SubSeq(description, i + 1, Len(description))

\* one iteration of the switch of ParseQueueMetadata; acc = [m, vars]
ParseKV(acc, key, val) ==
    CASE key = "target_rig" -> [acc EXCEPT !.m.TargetRig = val]
      [] key = "formula" -> [acc EXCEPT !.m.Formula = val]
      [] key = "args" -> [acc EXCEPT !.m.Args = val]
      [] key = "var" -> [acc EXCEPT !.vars = Append(acc.vars, val)]
      [] key = "vars" -> [acc EXCEPT !.vars = acc.vars \o SplitCommas(val)]
      [] key = "enqueued_at" -> [acc EXCEPT !.m.EnqueuedAt = val]
      [] key = "merge" -> [acc EXCEPT !.m.Merge = val]
      [] key = "convoy" -> [acc EXCEPT !.m.Convoy = val]
      [] key = "base_branch" -> [acc EXCEPT !.m.BaseBranch = val]
      [] key = "no_merge" -> [acc EXCEPT !.m.NoMerge = (val = "true")]
      [] key = "account" -> [acc EXCEPT !.m.Account = val]
      [] key = "agent" -> [acc EXCEPT !.m.Agent = val]
      [] key = "hook_raw_bead" -> [acc EXCEPT !.m.HookRawBead = (val = "true")]
      [] key = "owned" -> [acc EXCEPT !.m.Owned = (val = "true")]
      [] key = "dispatch_failures" ->
            IF Atoi(val).ok
            THEN [acc EXCEPT !.m.DispatchFailures = Atoi(val).n]
            ELSE acc
      [] key = "last_failure" -> [acc EXCEPT !.m.LastFailure = val]
      [] OTHER -> acc

\* the body of the loop for a line that is neither empty nor the delimiter:
\* strings.SplitN(line, ": ", 2), then the switch
ParseLine(acc, line) ==
    LET i == Index(line, ": ")
    IN IF i = 0 THEN acc
       ELSE ParseKV(acc, TrimSpace(SubSeq(line, 1, i - 1)),
                    TrimSpace(SubSeq(line, i + 2, Len(line))))

\* the loop of ParseQueueMetadata over the lines after the delimiter
RECURSIVE ParseSection(_, _)
ParseSection(section, acc) ==
    IF section = <<>> THEN acc
    ELSE LET line == TrimSpace(Head(section)) IN
         IF line = "" THEN ParseSection(Tail(section), acc)
         ELSE IF line = queueMetadataDelimiter THEN acc
         ELSE ParseSection(Tail(section), ParseLine(acc, line))

\* ParseQueueMetadata: <<>> is the nil pointer, <<m>> a pointer to m
ParseQueueMetadata(description) ==
    LET idx == DelimIndex(description) IN
    IF idx = 0 THEN <<>>
    ELSE LET acc == ParseSection(AfterDelim(description),
                                 [m |-> ZeroMeta, vars |-> <<>>])
         IN <<IF Len(acc.vars) > 0
              THEN [acc.m EXCEPT !.Vars = JoinLines(acc.vars)]
              ELSE acc.m>>

\* strings.TrimRight(s, "\n")
RECURSIVE TrimRightNewlines(_)
TrimRightNewlines(lines) ==
    IF lines # <<>> /\ lines[Len(lines)] = ""
    THEN TrimRightNewlines(SubSeq(lines, 1, Len(lines) - 1))
    ELSE lines

StripNothing(description) == description

StripQueueMetadata(description) ==
    LET idx == DelimIndex(description) IN
    IF idx = 0 THEN description
    ELSE TrimRightNewlines(BeforeDelim(description))

\* baseDesc, then "\n" when baseDesc is not empty, then the block
AppendBlock(baseDesc, metaBlock) == baseDesc \o metaBlock

----------------------------------------------------------------------------
(* State *)

VARIABLES
    status,          \* bead -> status in the issue store
    labels,          \* bead -> set of labels in the issue store
    desc,            \* bead -> description in the issue store
    convoyOf,        \* bead -> the ids of the convoys tracking it
    activePolecats,  \* number of polecat sessions
    lockHolder,      \* holder of .runtime/queue-dispatch.lock, "" when free
    queueFile,       \* .runtime/queue-state.json: <<>> missing, <<state>>
    epc, eloc,       \* enqueueBead invocations: position, locals
    dpc, dloc,       \* dispatchQueuedWork invocations: position, locals
    ret,             \* what the invocation that returned in the last step returned
    nEnq, nCycles, nExits,   \* operations performed so far
    spawned,         \* bead -> successful executor invocations
    attempts,        \* bead -> executor invocations
    commits,         \* bead -> times enqueueBead put gt:queued on the bead
    lost,            \* bead or state file -> the dispatcher's writes that failed, in order
    opc, oploc,      \* gt queue pause / resume: position, loaded state
    nOps,            \* pause / resume invocations so far
    runtimeDir,      \* the .runtime directory exists
    fsNames,         \* .runtime: file name -> inode
    fsData,          \* inode -> content (sequence of lines)
    svpc, svloc,     \* SaveQueueState invocations: position, locals
    rdpc, rdloc,     \* LoadQueueState invocations: position, locals
    nSaves, nReads,  \* saves and loads started so far
    savedData,       \* the contents handed to a save so far
    nowSec,          \* the wall clock, in seconds
    wakeFile,        \* daemon/idle-wake: <<>> missing, <<timestamp>>
    idleFile,        \* daemon/idle-state.json: <<>> missing, <<content>>
    idleWr,          \* the daemon's WriteIdleState: position, state, writes so far
    cpc,             \* ConsumeWakeSignal invocations: position
    wakeRet,         \* what the ConsumeWakeSignal that returned last returned
    nSignals, nConsumes,   \* SignalWake calls that wrote, consumes started
    nTrue,           \* ConsumeWakeSignal calls that returned true
    iwpc, iwloc,     \* gt deacon idle-wait: position, locals
    signalAt,        \* <<time>> of the first signal written during the sleep
    nowMin,          \* the wall clock, in minutes
    limitFile,       \* .runtime/ratelimit/state.json: <<>> missing, <<content>>
    limWr,           \* the SaveState invocations: position, state, file unlinked
    nLimFails,       \* operations on the usage-limit state file that failed
    wakes,           \* wakes performed since the usage limit was recorded
    lastWakeAt,      \* <<time>> of the last of these wakes
    nRecords, nClears,     \* usage limits recorded, clears so far
    codecPc,         \* a codec computation: position
    codecMeta,       \* the QueueMetadata it was given
    codecDesc,       \* the description it is working on
    codecOut,        \* what ParseQueueMetadata returned
    backoffCur,      \* the current backoff interval, in seconds
    nBackoffs,       \* nextBackoffInterval calls so far
    bpc, bloc,       \* a batch enqueue command: position, locals
    transcript,      \* the transcript given to detectUsageLimit
    detection        \* what detectUsageLimit returned: <<>> before the call

store == <<status, labels, desc, convoyOf>>
\* the work queue: beads, dispatch lock, state file, enqueuers, dispatchers
queueVars == <<status, labels, desc, convoyOf, activePolecats, lockHolder,
               queueFile, epc, eloc, dpc, dloc, ret, nEnq, nCycles, nExits,
               spawned, attempts, commits, lost>>
\* the operator's pause / resume commands
opVars == <<opc, oploc, nOps>>
\* everything outside the work queue
\* the state file at the level of the file system
saveVars == <<runtimeDir, fsNames, fsData, svpc, svloc, rdpc, rdloc, nSaves,
              nReads, savedData>>
\* the idle controller: wake signal, idle state, idle-wait
wakeVars == <<nowSec, wakeFile, idleFile, idleWr, cpc, wakeRet, nSignals, nConsumes,
              nTrue, iwpc, iwloc, signalAt>>
\* the usage-limit controller
limitVars == <<nowMin, limitFile, limWr, nLimFails, wakes, lastWakeAt, nRecords,
               nClears>>
\* computations of the pure functions: the metadata codec, the backoff
pureVars == <<codecPc, codecMeta, codecDesc, codecOut, backoffCur, nBackoffs>>
\* the batch enqueue commands
batchVars == <<bpc, bloc>>
\* usage-limit detection on a transcript
detectVars == <<transcript, detection>>
extraVars == <<opVars, saveVars, wakeVars, limitVars, pureVars, batchVars,
               detectVars>>
vars == <<queueVars, extraVars>>

\* the arguments of an enqueueBead call; NoCall when there is none to tell
NoCall == <<>>
Call(beadID, rigName, opts) == <<[bead |-> beadID, rig |-> rigName, opts |-> opts]>>

\* no invocation returned in the last step
NoRet == [who |-> "", n |-> 0, err |-> "", call |-> NoCall, env |-> ""]
\* enqueueBead returns err ("" is nil); dispatchQueuedWork returns (n, err)
Ret(who, n, err) == [who |-> who, n |-> n, err |-> err, call |-> NoCall, env |-> ""]

----------------------------------------------------------------------------
(* The environment of enqueueBead: rigs, formulas, bead homes *)

KnownRigs == Rigs
KnownFormulas == {"mol-polecat-work", "uncookable"}
CookableFormulas == {"mol-polecat-work"}
\* rig a bead belongs to ("" for a town-level bead), used by the cross-rig guard
HomeRig(b) == IF b = "b1" THEN "" ELSE "r2"
\* checkCrossRigGuard: nil (TRUE) when the bead may be queued to the rig
checkCrossRigGuard(b, rigName) == HomeRig(b) = "" \/ HomeRig(b) = rigName

ZeroOptions ==
    [Formula |-> "", Args |-> "", Vars |-> <<>>, Merge |-> "", BaseBranch |-> "",
     NoConvoy |-> FALSE, Owned |-> FALSE, DryRun |-> FALSE, Force |-> FALSE,
     NoMerge |-> FALSE, Account |-> "", Agent |-> "", HookRawBead |-> FALSE]

\* lines 118-146: NewQueueMetadata(rigName) with the options copied in
BuildMeta(rigName, opts, now) ==
    [NewQueueMetadata(rigName, now) EXCEPT
        !.Formula = opts.Formula, !.Args = opts.Args,
        !.Vars = JoinLines(opts.Vars),
        !.Merge = opts.Merge, !.BaseBranch = opts.BaseBranch,
        !.NoMerge = opts.NoMerge, !.Account = opts.Account,
        !.Agent = opts.Agent, !.HookRawBead = opts.HookRawBead,
        !.Owned = opts.Owned]

EIdle == [bead |-> "", meta |-> ZeroMeta, infoDesc |-> <<>>, baseDesc |-> <<>>,
          noConvoy |-> FALSE, convoy |-> ""]

\* createAutoConvoy: the id of the convoy created by invocation e
ConvoyID(e) == IF e = "e1" THEN "cv-1" ELSE "cv-2"

\* enqueueBead returns res
EnqReturn(e, err) ==
    /\ epc' = [epc EXCEPT ![e] = "idle"]
    /\ eloc' = [eloc EXCEPT ![e] = EIdle]
    /\ ret' = Ret(e, 0, err)

AlreadyQueuedNever(info) == FALSE

\* sling_queue.go:71-84: the bead is actively queued (open + gt:queued)
AlreadyQueued(info) == LabelQueued \in info.Labels /\ info.Status = "open"

\* getBeadInfo: the bead as the issue store has it
getBeadInfo(beadID) ==
    [Status |-> status[beadID], Labels |-> labels[beadID],
     Description |-> desc[beadID]]

EnqRejectNil(e, err, c) ==
    /\ epc' = [epc EXCEPT ![e] = "idle"]
    /\ eloc' = [eloc EXCEPT ![e] = EIdle]
    /\ ret' = [Ret(e, 0, "") EXCEPT !.call = c]

\* enqueueBead returns err before its first write; the call is kept with it
EnqReject(e, err, c) ==
    /\ epc' = [epc EXCEPT ![e] = "idle"]
    /\ eloc' = [eloc EXCEPT ![e] = EIdle]
    /\ ret' = [Ret(e, 0, err) EXCEPT !.call = c]

\* the calls of enqueueBead into its surroundings that may fail before the
\* first write: workspace.FindFromCwdOrError (no town around the working
\* directory) and getBeadInfo (bd show fails); "" when both succeed
EnqEnvs == {"", "workspace", "info"}

\* enqueueBead returns the error of the failing call env; ret keeps env
EnqRejectEnv(e, c, env) ==
    /\ epc' = [epc EXCEPT ![e] = "idle"]
    /\ eloc' = [eloc EXCEPT ![e] = EIdle]
    /\ ret' = [Ret(e, 0, "error") EXCEPT !.call = c, !.env = env]

\* sling_queue.go:40-158: town root, validation, getBeadInfo, idempotency
\* and status checks, dry-run, cook, metadata built
EnqStart(e, beadID, rigName, opts, now, env) ==
    /\ epc[e] = "idle"
    /\ UNCHANGED extraVars
    /\ nEnq' = nEnq + 1
    /\ UNCHANGED <<store, activePolecats, lockHolder, queueFile, dpc, dloc,
                   nCycles, nExits, spawned, attempts, commits, lost>>
    /\ IF env = "workspace" THEN EnqRejectEnv(e, Call(beadID, rigName, opts), env)
       ELSE IF beadID \notin Beads THEN EnqReject(e, "error", Call(beadID, rigName, opts))
       ELSE IF rigName \notin KnownRigs THEN EnqReject(e, "error", Call(beadID, rigName, opts))
       ELSE IF ~opts.Force /\ ~checkCrossRigGuard(beadID, rigName)
            THEN EnqReject(e, "error", Call(beadID, rigName, opts))
       ELSE IF env = "info" THEN EnqRejectEnv(e, Call(beadID, rigName, opts), env)
       ELSE IF AlreadyQueued(getBeadInfo(beadID))
            THEN EnqReject(e, "", Call(beadID, rigName, opts))
       ELSE IF status[beadID] \in {"pinned", "hooked"} /\ ~opts.Force
            THEN EnqReject(e, "error", Call(beadID, rigName, opts))
       ELSE IF opts.Formula # "" /\ opts.Formula \notin KnownFormulas
            THEN EnqReject(e, "error", Call(beadID, rigName, opts))
       ELSE IF opts.DryRun THEN EnqReject(e, "", Call(beadID, rigName, opts))
       ELSE IF opts.Formula # "" /\ opts.Formula \notin CookableFormulas
            THEN EnqReject(e, "error", Call(beadID, rigName, opts))
       ELSE /\ epc' = [epc EXCEPT ![e] = "writeDesc"]
            /\ eloc' = [eloc EXCEPT ![e] =
                    [bead |-> beadID,
                     meta |-> BuildMeta(rigName, opts, now),
                     infoDesc |-> desc[beadID],
                     baseDesc |-> StripQueueMetadata(desc[beadID]),
                     noConvoy |-> opts.NoConvoy,
                     convoy |-> ""]]
            /\ ret' = NoRet

\* sling_queue.go:165-170: bd update --description=newDesc
EnqWriteDesc(e, fails) ==
    /\ epc[e] = "writeDesc"
    /\ UNCHANGED extraVars
    /\ UNCHANGED <<status, labels, convoyOf, activePolecats, lockHolder, queueFile,
                   dpc, dloc, nEnq, nCycles, nExits, spawned, attempts,
                   commits, lost>>
    /\ IF fails
       THEN /\ EnqReturn(e, "error")
            /\ UNCHANGED desc
       ELSE /\ desc' = [desc EXCEPT ![eloc[e].bead] =
                    AppendBlock(eloc[e].baseDesc, FormatQueueMetadata(eloc[e].meta))]
            /\ epc' = [epc EXCEPT ![e] = "addLabel"]
            /\ UNCHANGED eloc /\ ret' = NoRet

\* sling_queue.go:172-178: bd update --add-label=gt:queued
EnqAddLabel(e, fails) ==
    /\ epc[e] = "addLabel"
    /\ UNCHANGED extraVars
    /\ UNCHANGED <<status, desc, convoyOf, activePolecats, lockHolder, queueFile,
                   dpc, dloc, nEnq, nCycles, nExits, spawned, attempts, lost>>
    /\ IF fails
       THEN /\ epc' = [epc EXCEPT ![e] = "rollback"]
            /\ UNCHANGED <<labels, commits, eloc>> /\ ret' = NoRet
       ELSE /\ labels' = [labels EXCEPT ![eloc[e].bead] = @ \cup {LabelQueued}]
            /\ commits' = [commits EXCEPT ![eloc[e].bead] =
                              IF LabelQueued \in labels[eloc[e].bead] THEN @ ELSE @ + 1]
            /\ IF eloc[e].noConvoy
               THEN EnqReturn(e, "")
               ELSE /\ epc' = [epc EXCEPT ![e] = "convoy"]
                    /\ UNCHANGED eloc /\ ret' = NoRet

\* sling_queue.go:179-188: bd update --description=baseDesc, best effort
EnqRollback(e, fails) ==
    /\ epc[e] = "rollback"
    /\ UNCHANGED extraVars
    /\ desc' = IF fails THEN desc
               ELSE [desc EXCEPT ![eloc[e].bead] = eloc[e].baseDesc]
    /\ EnqReturn(e, "error")
    /\ UNCHANGED <<status, labels, convoyOf, activePolecats, lockHolder, queueFile,
                   dpc, dloc, nEnq, nCycles, nExits, spawned, attempts,
                   commits, lost>>

\* isTrackedByConvoy: the ids it can return, "" when no convoy tracks the bead
isTrackedByConvoy(beadID) ==
    IF convoyOf[beadID] = {} THEN {""} ELSE convoyOf[beadID]

\* sling_queue.go:192-193, 213-215: existingConvoy := isTrackedByConvoy(beadID);
\* the call returns when a convoy tracks the bead
EnqConvoy(e) ==
    /\ epc[e] = "convoy"
    /\ UNCHANGED extraVars
    /\ UNCHANGED <<store, activePolecats, lockHolder, queueFile,
                   dpc, dloc, nEnq, nCycles, nExits, spawned, attempts,
                   commits, lost>>
    /\ \E existingConvoy \in isTrackedByConvoy(eloc[e].bead) :
          IF existingConvoy # ""
          THEN EnqReturn(e, "")
          ELSE /\ epc' = [epc EXCEPT ![e] = "createConvoy"]
               /\ UNCHANGED eloc /\ ret' = NoRet

\* sling_queue.go:194-198: createAutoConvoy, a step of its own after the
\* look-up; its failure is a warning
EnqCreateConvoy(e, fails) ==
    /\ epc[e] = "createConvoy"
    /\ UNCHANGED extraVars
    /\ UNCHANGED <<status, labels, desc, activePolecats, lockHolder, queueFile,
                   dpc, dloc, nEnq, nCycles, nExits, spawned, attempts,
                   commits, lost>>
    /\ IF fails
       THEN /\ EnqReturn(e, "")
            /\ UNCHANGED convoyOf
       ELSE /\ convoyOf' = [convoyOf EXCEPT ![eloc[e].bead] = @ \cup {ConvoyID(e)}]
            /\ epc' = [epc EXCEPT ![e] = "repersist"]
            /\ eloc' = [eloc EXCEPT ![e].convoy = ConvoyID(e)]
            /\ ret' = NoRet

\* sling_queue.go:199-211: metadata written again with the convoy id
EnqRepersist(e, fails) ==
    /\ epc[e] = "repersist"
    /\ UNCHANGED extraVars
    /\ desc' = IF fails THEN desc
               ELSE [desc EXCEPT ![eloc[e].bead] =
                        AppendBlock(eloc[e].baseDesc,
                            FormatQueueMetadata(
                                [eloc[e].meta EXCEPT !.Convoy = eloc[e].convoy]))]
    /\ EnqReturn(e, "")
    /\ UNCHANGED <<status, labels, convoyOf, activePolecats, lockHolder, queueFile,
                   dpc, dloc, nEnq, nCycles, nExits, spawned, attempts,
                   commits, lost>>

----------------------------------------------------------------------------
(* Queue runtime state (queue_state.go) *)

ZeroState == [Paused |-> FALSE, PausedBy |-> "", PausedAt |-> "",
              LastDispatchAt |-> "", LastDispatchCount |-> ToInt64(0)]

LoadQueueStateZero(file) == ZeroState

PausedZeroState == [ZeroState EXCEPT !.Paused = TRUE]

LoadQueueStatePaused(file) ==
    IF file = <<>> THEN PausedZeroState ELSE file[1]

\* LoadQueueState: the zero value when the file is missing
LoadQueueState(file) == IF file = <<>> THEN ZeroState ELSE file[1]

SetPaused(s, by, now) == [s EXCEPT !.Paused = TRUE, !.PausedBy = by, !.PausedAt = now]
SetResumed(s) == [s EXCEPT !.Paused = FALSE, !.PausedBy = "", !.PausedAt = ""]
RecordDispatchNoCount(s, count, now) == [s EXCEPT !.LastDispatchAt = now]

RecordDispatch(s, count, now) ==
    [s EXCEPT !.LastDispatchAt = now, !.LastDispatchCount = ToInt64(count)]

\* gt queue pause / gt queue resume: LoadQueueState; a file that is there
\* but cannot be read or parsed ends the command
OpLoad(kind, fails) ==
    /\ opc = "idle"
    /\ fails => queueFile # <<>>
    /\ opc' = IF fails THEN "idle" ELSE kind
    /\ oploc' = IF fails THEN ZeroState ELSE LoadQueueState(queueFile)
    /\ nOps' = nOps + 1
    /\ ret' = NoRet
    /\ UNCHANGED <<store, activePolecats, lockHolder, queueFile, epc, eloc,
                   dpc, dloc, nEnq, nCycles, nExits, spawned, attempts, commits, lost>>
    /\ UNCHANGED <<saveVars, wakeVars, limitVars, pureVars, batchVars, detectVars>>

\* gt queue pause / gt queue resume: SetPaused or SetResumed, SaveQueueState;
\* a save that fails leaves the file as it is
OpSave(by, now, fails) ==
    /\ opc \in {"pause", "resume"}
    /\ queueFile' = IF fails THEN queueFile
                    ELSE <<IF opc = "pause" THEN SetPaused(oploc, by, now)
                                            ELSE SetResumed(oploc)>>
    /\ opc' = "idle"
    /\ oploc' = ZeroState
    /\ ret' = NoRet
    /\ UNCHANGED <<store, activePolecats, lockHolder, epc, eloc,
                   dpc, dloc, nEnq, nCycles, nExits, spawned, attempts, commits, lost,
                   nOps>>
    /\ UNCHANGED <<saveVars, wakeVars, limitVars, pureVars, batchVars, detectVars>>

----------------------------------------------------------------------------
(* SaveQueueState and LoadQueueState on the file system (queue_state.go) *)

Savers == {"dispatcher", "operator"}
Readers == {"reader"}

\* queueStateFile
TargetPath == "queue-state.json"
\* the names os.CreateTemp(dir, ".queue-state-*.tmp") can draw
TempNames == {".queue-state-1.tmp", ".queue-state-2.tmp"}

BoolText(b) == IF b THEN "true" ELSE "false"

FoldLower == "abcdefghijklmnopqrstuvwxyz"
FoldUpper == "ABCDEFGHIJKLMNOPQRSTUVWXYZ"

\* the character that stands for c when names are matched whatever the case
\* of their letters: the ASCII letter in lower case, s for U+017F (long s)
\* and k for U+212A (Kelvin sign), which fold to those letters; any other
\* character folds to no ASCII character and is left as it is
FoldChar(c) ==
    IF \E i \in 1..26 : Char(FoldUpper, i) = c
    THEN Char(FoldLower, CHOOSE i \in 1..26 : Char(FoldUpper, i) = c)
    ELSE IF c = CharOf(383) THEN "s"
    ELSE IF c = CharOf(8490) THEN "k"
    ELSE c

RECURSIVE FoldName(_)
FoldName(s) ==
    IF s = "" THEN ""
    ELSE FoldChar(First(s)) \o FoldName(SubSeq(s, Len(First(s)) + 1, Len(s)))

\* the characters encoding/json writes as a short escape inside a string, and
\* the escape of each (the HTML characters included, as json.Marshal escapes
\* them)
Escapes == <<<<"\"", "\\\"">>, <<"\\", "\\\\">>, <<"\n", "\\n">>,
             <<"\r", "\\r">>, <<"\t", "\\t">>, <<"\f", "\\f">>,
             <<Char(Latin1, 8), "\\b">>, <<"<", "\\u003c">>,
             <<">", "\\u003e">>, <<"&", "\\u0026">>>>

\* the escape of character c: the short one, \u00XX for any other control
\* character, \u2028 and \u2029 for the line and paragraph separators, the
\* character itself otherwise
EscapeChar(c) ==
    IF \E i \in 1..Len(Escapes) : Escapes[i][1] = c
    THEN Escapes[CHOOSE i \in 1..Len(Escapes) : Escapes[i][1] = c][2]
    ELSE IF IsControl(c) \/ c = CharOf(8232) \/ c = CharOf(8233)
    THEN "\\u" \o SubSeq(Hex6(CodePoint(c)), 3, 6)
    ELSE c

\* the string literal json.Marshal writes for the Go string s
RECURSIVE EscapeString(_)
EscapeString(s) ==
    IF s = "" THEN ""
    ELSE EscapeChar(First(s)) \o EscapeString(SubSeq(s, Len(First(s)) + 1, Len(s)))
Quote(s) == "\"" \o EscapeString(s) \o "\""

\* the value of the hexadecimal digit c in either case, -1 for another
\* character
HexValue(c) ==
    IF \E i \in 1..16 : Char(HexDigits, i) = FoldChar(c)
    THEN (CHOOSE i \in 1..16 : Char(HexDigits, i) = FoldChar(c)) - 1
    ELSE 0 - 1

\* the code point of the escape \uXXXX that b starts with, -1 when b does not
\* start with one
EscapedPoint(b) ==
    IF /\ Len(b) >= 6 /\ SubSeq(b, 1, 2) = "\\u"
       /\ \A i \in 3..6 : HexValue(Char(b, i)) >= 0
    THEN HexValue(Char(b, 3)) * 4096 + HexValue(Char(b, 4)) * 256
         + HexValue(Char(b, 5)) * 16 + HexValue(Char(b, 6))
    ELSE 0 - 1

\* the characters the single-letter escapes stand for
ShortEscapes == <<<<"\"", "\"">>, <<"\\", "\\">>, <<"/", "/">>,
                  <<"b", Char(Latin1, 8)>>, <<"f", "\f">>, <<"n", "\n">>,
                  <<"r", "\r">>, <<"t", "\t">>>>

\* the inside of a string literal decoded: [ok, s]; ok = FALSE for a quote or
\* a control character that is not escaped and for an escape that is not one
\* of JSON's.  \uXXXX stands for the character of that code point, two such
\* escapes that are a surrogate pair for the character above U+FFFF they
\* encode, a surrogate that is not half of a pair for U+FFFD.
\* the code points p and q are the two halves of a surrogate pair
IsSurrogatePair(p, q) == p >= 55296 /\ p <= 56319 /\ q >= 56320 /\ q <= 57343
\* the decoded string that starts with c and goes on as the decoded rest r
Decoded(c, r) == [ok |-> r.ok, s |-> c \o r.s]

RECURSIVE Unescape(_)
Unescape(b) ==
    IF b = "" THEN [ok |-> TRUE, s |-> ""]
    ELSE IF Char(b, 1) = "\"" \/ IsControl(First(b))
         THEN [ok |-> FALSE, s |-> ""]
    ELSE IF Char(b, 1) # "\\"
         THEN Decoded(Char(b, 1), Unescape(SubSeq(b, 2, Len(b))))
    ELSE IF Len(b) < 2 THEN [ok |-> FALSE, s |-> ""]
    ELSE IF \E i \in 1..Len(ShortEscapes) : ShortEscapes[i][1] = Char(b, 2)
         THEN Decoded(ShortEscapes[CHOOSE i \in 1..Len(ShortEscapes) :
                                       ShortEscapes[i][1] = Char(b, 2)][2],
                      Unescape(SubSeq(b, 3, Len(b))))
    ELSE LET Point(p, q, pair) ==
                 IF p < 0 THEN [ok |-> FALSE, s |-> ""]
                 ELSE Decoded(CharOf(IF pair
                                     THEN 65536 + (p - 55296) * 1024 + (q - 56320)
                                     ELSE IF p >= 55296 /\ p <= 57343 THEN 65533
                                     ELSE p),
                              Unescape(SubSeq(b, (IF pair THEN 12 ELSE 6) + 1, Len(b))))
         IN Point(EscapedPoint(b), EscapedPoint(SubSeq(b, 7, Len(b))),
                  IsSurrogatePair(EscapedPoint(b),
                                  EscapedPoint(SubSeq(b, 7, Len(b)))))

\* the number of digits s starts with
RECURSIVE DigitRun(_)
DigitRun(s) ==
    IF s # "" /\ IsDigit(Char(s, 1)) THEN 1 + DigitRun(SubSeq(s, 2, Len(s))) ELSE 0

\* the integers of JSON's number grammar: -?(0|[1-9][0-9]*)
IsJSONInt(t) ==
    LET body == IF t # "" /\ Char(t, 1) = "-" THEN SubSeq(t, 2, Len(t)) ELSE t
    IN body # "" /\ AllDigits(body) /\ (Len(body) = 1 \/ Char(body, 1) # "0")

\* an exponent: [eE][+-]?[0-9]+, or nothing
IsExponent(t) ==
    \/ t = ""
    \/ /\ Char(t, 1) \in {"e", "E"}
       /\ LET u == SubSeq(t, 2, Len(t))
              d == IF u # "" /\ Char(u, 1) \in {"+", "-"}
                   THEN SubSeq(u, 2, Len(u)) ELSE u
          IN d # "" /\ AllDigits(d)

\* JSON's number grammar: an integer, then a fraction and an exponent
IsJSONNumber(t) ==
    LET sign == IF t # "" /\ Char(t, 1) = "-" THEN 1 ELSE 0
        n == DigitRun(SubSeq(t, sign + 1, Len(t)))
        rest == SubSeq(t, sign + n + 1, Len(t))
        f == IF rest # "" /\ Char(rest, 1) = "."
             THEN DigitRun(SubSeq(rest, 2, Len(rest))) ELSE 0
    IN /\ IsJSONInt(SubSeq(t, 1, sign + n))
       /\ IF rest # "" /\ Char(rest, 1) = "."
          THEN f > 0 /\ IsExponent(SubSeq(rest, f + 2, Len(rest)))
          ELSE IsExponent(rest)

\* the white space of JSON
JSONSpace == {" ", "\t", "\n", "\r"}

\* the first place of t from i on that holds no white space (Len(t) + 1 when
\* there is none)
RECURSIVE SkipSpace(_, _)
SkipSpace(t, i) ==
    IF i <= Len(t) /\ Char(t, i) \in JSONSpace THEN SkipSpace(t, i + 1) ELSE i

\* t without the white space around it
RECURSIVE DropSpaceAfter(_)
DropSpaceAfter(t) ==
    IF t # "" /\ Char(t, Len(t)) \in JSONSpace
    THEN DropSpaceAfter(SubSeq(t, 1, Len(t) - 1)) ELSE t
TrimValue(t) == DropSpaceAfter(SubSeq(t, SkipSpace(t, 1), Len(t)))

\* the place of the quote that ends the string literal whose inside starts at
\* j, 0 when there is none
RECURSIVE StringEnd(_, _)
StringEnd(t, j) ==
    IF j > Len(t) THEN 0
    ELSE IF Char(t, j) = "\"" THEN j
    ELSE IF Char(t, j) = "\\" THEN StringEnd(t, j + 2)
    ELSE StringEnd(t, j + 1)

\* the scanner of encoding/json on the text t from place i on: the place
\* after the string literal, the number, the literal name or the value that
\* starts at i, 0 for a syntax error
ScanString(t, i) ==
    LET StringClosed(e) == IF e = 0 \/ ~Unescape(SubSeq(t, i + 1, e - 1)).ok THEN 0
                  ELSE e + 1
    IN StringClosed(StringEnd(t, i + 1))

RECURSIVE NumberEnd(_, _)
NumberEnd(t, j) ==
    IF j <= Len(t) /\ (IsDigit(Char(t, j)) \/ Char(t, j) \in {"-", "+", ".", "e", "E"})
    THEN NumberEnd(t, j + 1) ELSE j

ScanNumber(t, i) ==
    LET NumberClosed(e) == IF IsJSONNumber(SubSeq(t, i, e - 1)) THEN e ELSE 0
    IN NumberClosed(NumberEnd(t, i))

ScanName(t, i) ==
    IF \E w \in {"true", "false", "null"} :
           i + Len(w) - 1 <= Len(t) /\ SubSeq(t, i, i + Len(w) - 1) = w
    THEN i + Len(CHOOSE w \in {"true", "false", "null"} :
                     i + Len(w) - 1 <= Len(t) /\ SubSeq(t, i, i + Len(w) - 1) = w)
    ELSE 0

\* the place after the white space that follows a scanned value ending
\* before place e, 0 when the value was a syntax error
SkipAfter(t, e) == IF e = 0 THEN 0 ELSE SkipSpace(t, e)

RECURSIVE ScanValue(_, _), ScanElements(_, _), ScanMembers(_, _)
ScanValue(t, i) ==
    LET Value(j, k) ==
            IF j > Len(t) THEN 0
            ELSE IF Char(t, j) = "{"
                 THEN IF k <= Len(t) /\ Char(t, k) = "}" THEN k + 1
                      ELSE ScanMembers(t, k)
            ELSE IF Char(t, j) = "["
                 THEN IF k <= Len(t) /\ Char(t, k) = "]" THEN k + 1
                      ELSE ScanElements(t, k)
            ELSE IF Char(t, j) = "\"" THEN ScanString(t, j)
            ELSE IF Char(t, j) \in {"t", "f", "n"} THEN ScanName(t, j)
            ELSE ScanNumber(t, j)
    IN Value(SkipSpace(t, i), SkipSpace(t, SkipSpace(t, i) + 1))

\* the elements of an array from the first one on, up to the closing bracket
ScanElements(t, i) ==
    LET MoreElements(k) ==
            IF k = 0 \/ k > Len(t) THEN 0
            ELSE IF Char(t, k) = "," THEN ScanElements(t, k + 1)
            ELSE IF Char(t, k) = "]" THEN k + 1
            ELSE 0
    IN MoreElements(SkipAfter(t, ScanValue(t, i)))

\* the members of an object from the first one on, up to the closing brace
ScanMembers(t, i) ==
    LET MoreMembers(k) ==
            IF k = 0 \/ k > Len(t) THEN 0
            ELSE IF Char(t, k) = "," THEN ScanMembers(t, k + 1)
            ELSE IF Char(t, k) = "}" THEN k + 1
            ELSE 0
        Colon(c) ==
            IF c = 0 \/ c > Len(t) \/ Char(t, c) # ":" THEN 0
            ELSE MoreMembers(SkipAfter(t, ScanValue(t, c + 1)))
        Name(j) ==
            IF j <= Len(t) /\ Char(t, j) = "\""
            THEN Colon(SkipAfter(t, ScanString(t, j))) ELSE 0
    IN Name(SkipSpace(t, i))

\* the kind of the JSON value with the text t; "invalid" is a syntax error
ValueKind(t) ==
    LET Kind(v) ==
            IF ScanValue(v, 1) # Len(v) + 1 THEN "invalid"
            ELSE IF Char(v, 1) \in {"{", "["} THEN "composite"
            ELSE IF Char(v, 1) = "\"" THEN "string"
            ELSE IF v = "null" THEN "null"
            ELSE IF v \in {"true", "false"} THEN "bool"
            ELSE "number"
    IN Kind(TrimValue(t))

\* a member of the JSON object: its name and the text of its value; the
\* braces and the final line break of the document are members with no value
Member(k, v) == [k |-> k, v |-> v]
OmitEmpty(k, s) == IF s = "" THEN <<>> ELSE <<Member(k, Quote(s))>>
NewLine == Member("\n", "")

\* json.MarshalIndent of a QueueState: one line per field, omitempty applied
MarshalIndent(st) ==
    <<Member("{", ""), Member("paused", BoolText(st.Paused))>>
    \o OmitEmpty("paused_by", st.PausedBy)
    \o OmitEmpty("paused_at", st.PausedAt)
    \o OmitEmpty("last_dispatch_at", st.LastDispatchAt)
    \o (IF st.LastDispatchCount = ToInt64(0) THEN <<>>
        ELSE <<Member("last_dispatch_count", Itoa(st.LastDispatchCount))>>)
    \o <<Member("}", "")>>

\* the field of QueueState that the member named f is stored in
FieldOf(f) ==
    IF f = "paused_by" THEN "PausedBy"
    ELSE IF f = "paused_at" THEN "PausedAt"
    ELSE "LastDispatchAt"

\* the names of the members json.Unmarshal stores in a QueueState
StateKeys == {"paused", "paused_by", "paused_at", "last_dispatch_at",
              "last_dispatch_count"}

\* one member decoded into the state: [st, ok]; ok = FALSE once a value did
\* not fit its field (decoding goes on, the error is returned at the end).
\* A name matches its field whatever the case of its letters, a name that
\* matches no field is skipped, and null leaves the field as it is.
UnmarshalMember(acc, m) ==
    LET Store(f, v, kind, bad) ==
            IF f \notin StateKeys \/ kind = "null" THEN acc
            ELSE IF f = "paused"
                 THEN IF kind = "bool" THEN [acc EXCEPT !.st.Paused = (v = "true")]
                      ELSE bad
            ELSE IF f = "last_dispatch_count"
                 THEN IF kind = "number" /\ IsJSONInt(v) /\ Atoi(v).ok
                      THEN [acc EXCEPT !.st.LastDispatchCount = Atoi(v).n]
                      ELSE bad
            ELSE IF kind # "string" THEN bad
            ELSE [acc EXCEPT !.st[FieldOf(f)] =
                                 Unescape(SubSeq(v, 2, Len(v) - 1)).s]
    IN Store(FoldName(m.k), TrimValue(m.v), ValueKind(m.v),
             [acc EXCEPT !.ok = FALSE])

\* m is white space of the document: a line that holds nothing but JSON's
\* white space, as the line break that ends the document
IsSpaceMember(m) ==
    m.v = "" /\ m.k # "" /\ \A i \in 1..Len(m.k) : Char(m.k, i) \in JSONSpace

\* the result of json.Unmarshal once every member was decoded
Stored(r) == [ok |-> r.ok, state |-> r.st]

RECURSIVE UnmarshalMembers(_, _)
UnmarshalMembers(acc, ms) ==
    IF ms = <<>> THEN acc
    ELSE UnmarshalMembers(UnmarshalMember(acc, Head(ms)), Tail(ms))

\* json.Unmarshal into a zero QueueState: [ok, state]; ok = FALSE is the error
\* of a document that is not valid JSON (empty, unterminated, a value that is
\* no JSON value), checked before anything is stored, or of a value that does
\* not fit its field.  The members are stored in the order of the document,
\* so that the last one of a repeated name is the one that stays.
Unmarshal(data) ==
    LET Document(body) ==
            IF /\ Len(body) >= 2
               /\ body[1] = Member("{", "")
               /\ body[Len(body)] = Member("}", "")
               /\ \A i \in 2..(Len(body) - 1) : ValueKind(body[i].v) # "invalid"
            THEN Stored(UnmarshalMembers([st |-> ZeroState, ok |-> TRUE],
                                         SubSeq(body, 2, Len(body) - 1)))
            ELSE [ok |-> FALSE, state |-> ZeroState]
    IN Document(SelectSeq(data, LAMBDA m : ~IsSpaceMember(m)))

\* the locals of SaveQueueState; left is the temp file a returned save could
\* not remove (the error of os.Remove is dropped)
SIdle == [state |-> ZeroState, data |-> <<>>, tmpPath |-> "", ino |-> 0, err |-> "",
          left |-> ""]
RIdle == [found |-> FALSE, ino |-> 0, obs |-> <<>>, state |-> ZeroState, err |-> ""]

\* the content a reader of the target finds: <<>> no file, <<content>>
TargetView ==
    IF runtimeDir /\ TargetPath \in DOMAIN fsNames
    THEN <<fsData[fsNames[TargetPath]]>> ELSE <<>>

\* the directory after the entry of name is removed
RemoveName(dir, name) == [n \in DOMAIN dir \ {name} |-> dir[n]]
\* the directory after name is made to refer to inode ino
LinkName(dir, name, ino) ==
    [n \in DOMAIN dir \cup {name} |-> IF n = name THEN ino ELSE dir[n]]

SaveFrame == UNCHANGED <<queueVars, opVars, wakeVars, limitVars, pureVars,
                         batchVars, detectVars, rdpc, rdloc,
                         nReads>>

\* SaveQueueState returns err
SaveReturn(w, err) ==
    /\ svpc' = [svpc EXCEPT ![w] = "idle"]
    /\ svloc' = [svloc EXCEPT ![w] = [SIdle EXCEPT !.err = err]]

\* the name os.CreateTemp may give the new file: pattern names not in use
CreateTempOnTarget(dir) == {TargetPath}

CreateTempNames(dir) == {n \in TempNames : n \notin DOMAIN dir}

\* SaveQueueState entered: os.MkdirAll, json.MarshalIndent
SaveMkdir(w, st, ok) ==
    /\ svpc[w] = "idle"
    /\ nSaves' = nSaves + 1
    /\ IF ok
       THEN /\ runtimeDir' = TRUE
            /\ svpc' = [svpc EXCEPT ![w] = "create"]
            /\ svloc' = [svloc EXCEPT ![w] =
                   [SIdle EXCEPT !.state = st,
                                 !.data = MarshalIndent(st) \o <<NewLine>>]]
            /\ savedData' = savedData \cup {MarshalIndent(st) \o <<NewLine>>}
       ELSE /\ svpc' = svpc
            /\ svloc' = [svloc EXCEPT ![w] = [SIdle EXCEPT !.err = "mkdir"]]
            /\ UNCHANGED <<runtimeDir, savedData>>
    /\ UNCHANGED <<fsNames, fsData>>
    /\ SaveFrame

\* os.CreateTemp: a new empty file under a name not in use
SaveCreateTemp(w, ok) ==
    /\ svpc[w] = "create"
    /\ IF ok
       THEN \E n \in CreateTempNames(fsNames) :
               /\ fsData' = Append(fsData, <<>>)
               /\ fsNames' = LinkName(fsNames, n, Len(fsData) + 1)
               /\ svpc' = [svpc EXCEPT ![w] = "write"]
               /\ svloc' = [svloc EXCEPT ![w].tmpPath = n,
                                         ![w].ino = Len(fsData) + 1]
       ELSE /\ SaveReturn(w, "createtemp")
            /\ UNCHANGED <<fsNames, fsData>>
    /\ UNCHANGED <<runtimeDir, nSaves, savedData>>
    /\ SaveFrame

\* tmp.Write: the data reaches the file line by line; an error ends it early
SaveWrite(w, ok) ==
    /\ svpc[w] = "write"
    /\ LET have == Len(fsData[svloc[w].ino])
           data == svloc[w].data
       IN  IF ok
           THEN /\ fsData' = [fsData EXCEPT ![svloc[w].ino] = Append(@, data[have + 1])]
                /\ svpc' = [svpc EXCEPT ![w] =
                               IF have + 1 = Len(data) THEN "close" ELSE "write"]
                /\ svloc' = svloc
           ELSE /\ svpc' = [svpc EXCEPT ![w] = "cleanup"]
                /\ svloc' = [svloc EXCEPT ![w].err = "write"]
                /\ fsData' = fsData
    /\ UNCHANGED <<runtimeDir, fsNames, nSaves, savedData>>
    /\ SaveFrame

\* tmp.Close
SaveClose(w, ok) ==
    /\ svpc[w] = "close"
    /\ svpc' = [svpc EXCEPT ![w] = IF ok THEN "rename" ELSE "cleanup"]
    /\ svloc' = [svloc EXCEPT ![w].err = IF ok THEN "" ELSE "close"]
    /\ UNCHANGED <<runtimeDir, fsNames, fsData, nSaves, savedData>>
    /\ SaveFrame

\* os.Rename(tmpPath, path): the target name refers to the temp file's inode
\* and the temp name is gone, in one step
SaveRename(w, ok) ==
    /\ svpc[w] = "rename"
    /\ IF ok
       THEN /\ fsNames' = LinkName(RemoveName(fsNames, svloc[w].tmpPath),
                                   TargetPath, svloc[w].ino)
            /\ SaveReturn(w, "")
       ELSE /\ svpc' = [svpc EXCEPT ![w] = "cleanup"]
            /\ svloc' = [svloc EXCEPT ![w].err = "rename"]
            /\ fsNames' = fsNames
    /\ UNCHANGED <<runtimeDir, fsData, nSaves, savedData>>
    /\ SaveFrame

\* the failure paths, queue_state.go:70, 74, 78: os.Remove(tmpPath) frees the
\* closed file, or fails with its error dropped and the file stays; return err
SaveCleanup(w, removed) ==
    /\ svpc[w] = "cleanup"
    /\ IF removed
       THEN /\ fsNames' = RemoveName(fsNames, svloc[w].tmpPath)
            /\ fsData' = [fsData EXCEPT ![svloc[w].ino] = <<>>]
            /\ SaveReturn(w, svloc[w].err)
       ELSE /\ UNCHANGED <<fsNames, fsData>>
            /\ svpc' = [svpc EXCEPT ![w] = "idle"]
            /\ svloc' = [svloc EXCEPT ![w] =
                   [SIdle EXCEPT !.err = svloc[w].err, !.left = svloc[w].tmpPath]]
    /\ UNCHANGED <<runtimeDir, nSaves, savedData>>
    /\ SaveFrame

\* the process dies in the middle of SaveQueueState
SaveCrash(w) ==
    /\ svpc[w] \notin {"idle", "crashed"}
    /\ svpc' = [svpc EXCEPT ![w] = "crashed"]
    /\ UNCHANGED <<runtimeDir, fsNames, fsData, svloc, nSaves, savedData>>
    /\ SaveFrame

ReadFrame == UNCHANGED <<queueVars, opVars, wakeVars, limitVars, pureVars,
                         batchVars, detectVars, runtimeDir, fsNames, fsData, svpc,
                         svloc, nSaves, savedData>>

\* LoadQueueState: os.ReadFile opens the file; the zero state when it is
\* missing, (nil, err) when the file is there and cannot be read
ReadOpen(r, fails) ==
    /\ rdpc[r] \in {"idle", "done"}
    /\ fails => TargetView # <<>>
    /\ nReads' = nReads + 1
    /\ IF TargetView = <<>>
       THEN /\ rdpc' = [rdpc EXCEPT ![r] = "done"]
            /\ rdloc' = [rdloc EXCEPT ![r] = RIdle]
       ELSE IF fails
       THEN /\ rdpc' = [rdpc EXCEPT ![r] = "done"]
            /\ rdloc' = [rdloc EXCEPT ![r] =
                   [RIdle EXCEPT !.found = TRUE, !.err = "read"]]
       ELSE /\ rdpc' = [rdpc EXCEPT ![r] = "read"]
            /\ rdloc' = [rdloc EXCEPT ![r] =
                   [RIdle EXCEPT !.found = TRUE, !.ino = fsNames[TargetPath]]]
    /\ ReadFrame

\* LoadQueueState: os.ReadFile reads the open file, json.Unmarshal
ReadAll(r) ==
    /\ rdpc[r] = "read"
    /\ LET Read(obs, u) ==
               rdloc' = [rdloc EXCEPT ![r].obs = obs,
                                      ![r].state = IF u.ok THEN u.state ELSE ZeroState,
                                      ![r].err = IF u.ok THEN "" ELSE "unmarshal"]
       IN  Read(fsData[rdloc[r].ino], Unmarshal(fsData[rdloc[r].ino]))
    /\ rdpc' = [rdpc EXCEPT ![r] = "done"]
    /\ nReads' = nReads
    /\ ReadFrame

----------------------------------------------------------------------------
(* dispatchQueuedWork (queue_dispatch.go) *)

\* settings.Queue and the command-line overrides of one invocation
ConfigMaxPolecats == {0, 2}
MaxPolOverrides == {0, 1}
ConfigBatchSizes == {2}
BatchOverrides == {0, 1}

\* the directories of beadsSearchDirs and the beads bd ready can list in each
BeadDirs == <<"town", "rig">>
DirListing(dir) == IF dir = "town" THEN <<"b1">> ELSE <<"b1", "b2", "b3">>

\* the error text of a failing executeSling
SlingError == "spawn failed"

\* the locals of dispatchQueuedWork before it runs
DIdle == [dryRun |-> FALSE, maxPolecats |-> 0, active |-> 0, capacity |-> 0,
          batchSize |-> 0, dir |-> 1, result |-> <<>>, failCount |-> 0,
          ready |-> <<>>, i |-> 0, toDispatch |-> 0,
          dispatched |-> 0, execs |-> 0, fresh |-> ZeroState]

\* the writes of the dispatcher that are best effort or only warned about
StateFile == "queue-state.json"
\* the number of writes of the dispatcher that fail in one behaviour
MaxLost == 1
RaceLost == 0         \* Spec: writes of the dispatcher that fail
LossyLost == 3        \* SpecLossy: writes of the dispatcher that fail
LossyCycles == 2      \* SpecLossy: dispatchQueuedWork invocations
RetryCycles == 4      \* SpecRetry: dispatchQueuedWork invocations
LostKeys == Beads \cup {StateFile}
LostKinds == {"quarantine", "description", "labels", "strip", "swap", "reload", "save"}
\* the write kind on key k fails
Lose(k, kind) == [lost EXCEPT ![k] = Append(@, kind)]
\* a write kind on key k has failed
Failed(k, kind) == \E j \in 1..Len(lost[k]) : lost[k][j] = kind
RECURSIVE LostIn(_)
LostIn(keys) ==
    IF keys = {} THEN 0
    ELSE LET k == CHOOSE x \in keys : TRUE
         IN Len(lost[k]) + LostIn(keys \ {k})
\* the number of failed writes so far
LostCount == LostIn(LostKeys)

isDaemonDispatchNever(d) == FALSE

isDaemonDispatch(d) == d = "daemon"

computeDispatchCountNoCap(capacity, batchSize, readyCount) ==
    IF readyCount < batchSize THEN readyCount ELSE batchSize

computeDispatchCount(capacity, batchSize, readyCount) ==
    LET t1 == IF capacity > 0 /\ capacity < batchSize THEN capacity ELSE batchSize
    IN IF readyCount < t1 THEN readyCount ELSE t1

BdReadyAnyLabel(b) == status[b] = "open"

\* bd ready --label gt:queued: open beads carrying the label
BdReady(b) == status[b] = "open" /\ LabelQueued \in labels[b]

RECURSIVE ReadyFromNoBreaker(_)
ReadyFromNoBreaker(ids) ==
    IF ids = <<>> THEN <<>>
    ELSE LET b == Head(ids)
             meta == ParseQueueMetadata(desc[b])
             rest == ReadyFromNoBreaker(Tail(ids))
         IN IF ~BdReady(b) THEN rest
            ELSE <<[ID |-> b,
                    TargetRig |-> IF meta # <<>> THEN meta[1].TargetRig ELSE "",
                    Description |-> desc[b]]>> \o rest

\* getReadyQueuedBeadsFrom: the listing of one directory, circuit breaker applied
RECURSIVE ReadyFrom(_)
ReadyFrom(ids) ==
    IF ids = <<>> THEN <<>>
    ELSE LET b == Head(ids)
             meta == ParseQueueMetadata(desc[b])
             rest == ReadyFrom(Tail(ids))
         IN IF ~BdReady(b) THEN rest
            ELSE IF meta # <<>> /\ Int64Geq(meta[1].DispatchFailures, maxDispatchFailures)
                 THEN rest
            ELSE <<[ID |-> b,
                    TargetRig |-> IF meta # <<>> THEN meta[1].TargetRig ELSE "",
                    Description |-> desc[b]]>> \o rest

getReadyQueuedBeadsFrom(dir) == ReadyFrom(DirListing(dir))

AppendAll(result, beads) == result \o beads

\* the dedupe loop of getReadyQueuedBeads over one directory's beads
RECURSIVE AppendUnseen(_, _)
AppendUnseen(result, beads) ==
    IF beads = <<>> THEN result
    ELSE IF \E j \in 1..Len(result) : result[j].ID = Head(beads).ID
         THEN AppendUnseen(result, Tail(beads))
         ELSE AppendUnseen(Append(result, Head(beads)), Tail(beads))

\* the IDs of a list of ready beads
IDsOf(beads) == {beads[j].ID : j \in 1..Len(beads)}
NoRepeat(beads) ==
    \A j, k \in 1..Len(beads) : beads[j].ID = beads[k].ID => j = k

\* dispatchQueuedWork returns (n, err); the deferred Unlock runs
DispReturn(d, n, err) ==
    /\ dpc' = [dpc EXCEPT ![d] = "idle"]
    /\ dloc' = [dloc EXCEPT ![d] = DIdle]
    /\ ret' = Ret(d, n, err)
    /\ lockHolder' = IF lockHolder = d THEN "" ELSE lockHolder

TryLockAlways(d) == TRUE

\* fileLock.TryLock(): TRUE when the lock was free
TryLock(d) == lockHolder = ""

\* queue_dispatch.go:28-44: the try-lock; lockErr is TryLock returning an error
DispStart(d, dryRun, lockErr) ==
    /\ dpc[d] = "idle"
    /\ UNCHANGED extraVars
    /\ nCycles' = nCycles + 1
    /\ UNCHANGED <<store, activePolecats, queueFile, epc, eloc,
                   nEnq, nExits, spawned, attempts, commits, lost>>
    /\ IF lockErr
       THEN /\ ret' = Ret(d, 0, "acquiring dispatch lock")
            /\ UNCHANGED <<dpc, dloc, lockHolder>>
       ELSE IF ~TryLock(d)
       THEN /\ ret' = Ret(d, 0, "")
            /\ UNCHANGED <<dpc, dloc, lockHolder>>
       ELSE /\ lockHolder' = d
            /\ dpc' = [dpc EXCEPT ![d] = "load"]
            /\ dloc' = [dloc EXCEPT ![d] = [DIdle EXCEPT !.dryRun = dryRun]]
            /\ ret' = NoRet

\* queue_dispatch.go:46-57: LoadQueueState and the pause gate; fails is the
\* file being there and unreadable or not JSON
DispLoad(d, fails) ==
    /\ dpc[d] = "load"
    /\ fails => queueFile # <<>>
    /\ UNCHANGED extraVars
    /\ UNCHANGED <<store, activePolecats, queueFile, epc, eloc,
                   nEnq, nCycles, nExits, spawned, attempts, commits, lost>>
    /\ IF fails
       THEN DispReturn(d, 0, "loading queue state")
       ELSE IF LoadQueueState(queueFile).Paused
       THEN DispReturn(d, 0, "")
       ELSE /\ dpc' = [dpc EXCEPT ![d] = "limits"]
            /\ UNCHANGED <<dloc, lockHolder>> /\ ret' = NoRet

\* queue_dispatch.go:59-105: settings (loaded: LoadOrCreateTownSettings
\* succeeds), the enabled gate, limits, countActivePolecats and the capacity
DispLimits(d, loaded, enabled, cfgMax, maxPolOverride, cfgBatch, batchOverride) ==
    /\ dpc[d] = "limits"
    /\ UNCHANGED extraVars
    /\ UNCHANGED <<store, activePolecats, queueFile, epc, eloc,
                   nEnq, nCycles, nExits, spawned, attempts, commits, lost>>
    /\ LET maxPolecats == IF maxPolOverride > 0 THEN maxPolOverride ELSE cfgMax
           batchSize == IF batchOverride > 0 THEN batchOverride ELSE cfgBatch
           capacity == IF maxPolecats > 0 THEN maxPolecats - activePolecats ELSE 0
       IN IF ~loaded
          THEN DispReturn(d, 0, "loading town settings")
          ELSE IF ~enabled /\ ~dloc[d].dryRun /\ isDaemonDispatch(d)
          THEN DispReturn(d, 0, "")
          ELSE IF maxPolecats > 0 /\ capacity <= 0
          THEN DispReturn(d, 0, "")
          ELSE /\ dpc' = [dpc EXCEPT ![d] = "query"]
               /\ dloc' = [dloc EXCEPT ![d].maxPolecats = maxPolecats,
                                       ![d].active = activePolecats,
                                       ![d].capacity = capacity,
                                       ![d].batchSize = batchSize]
               /\ UNCHANGED lockHolder /\ ret' = NoRet

\* the query without the dry-run return
DispQueryNoDryRun(d, fails) ==
    /\ dpc[d] = "query"
    /\ UNCHANGED extraVars
    /\ UNCHANGED <<store, activePolecats, queueFile, epc, eloc,
                   nEnq, nCycles, nExits, spawned, attempts, commits, lost>>
    /\ LET dir == BeadDirs[dloc[d].dir]
           result == IF fails THEN dloc[d].result
                     ELSE AppendUnseen(dloc[d].result, getReadyQueuedBeadsFrom(dir))
           failCount == dloc[d].failCount + (IF fails THEN 1 ELSE 0)
           toDispatch == computeDispatchCount(dloc[d].capacity, dloc[d].batchSize,
                                              Len(result))
       IN IF dloc[d].dir < Len(BeadDirs)
          THEN /\ dloc' = [dloc EXCEPT ![d].dir = @ + 1, ![d].result = result,
                                       ![d].failCount = failCount]
               /\ UNCHANGED <<dpc, lockHolder>> /\ ret' = NoRet
          ELSE IF failCount = Len(BeadDirs) /\ failCount > 0
          THEN DispReturn(d, 0, "querying ready beads")
          ELSE IF Len(result) = 0 THEN DispReturn(d, 0, "")
          ELSE /\ dpc' = [dpc EXCEPT ![d] = IF toDispatch >= 1 THEN "loop" ELSE "post"]
               /\ dloc' = [dloc EXCEPT ![d].result = result,
                                       ![d].failCount = failCount,
                                       ![d].ready = result, ![d].i = 1,
                                       ![d].toDispatch = toDispatch]
               /\ UNCHANGED lockHolder /\ ret' = NoRet

\* queue_dispatch.go:107-140 and 204-233: one round of the loop of
\* getReadyQueuedBeads, bd ready in the next directory (fails: the command
\* fails there); after the last directory the error of a scan in which every
\* directory failed, the empty queue, the dry run, and the dispatch count
DispQuery(d, fails) ==
    /\ dpc[d] = "query"
    /\ UNCHANGED extraVars
    /\ UNCHANGED <<store, activePolecats, queueFile, epc, eloc,
                   nEnq, nCycles, nExits, spawned, attempts, commits, lost>>
    /\ LET dir == BeadDirs[dloc[d].dir]
           result == IF fails THEN dloc[d].result
                     ELSE AppendUnseen(dloc[d].result, getReadyQueuedBeadsFrom(dir))
           failCount == dloc[d].failCount + (IF fails THEN 1 ELSE 0)
           toDispatch == computeDispatchCount(dloc[d].capacity, dloc[d].batchSize,
                                              Len(result))
       IN IF dloc[d].dir < Len(BeadDirs)
          THEN /\ dloc' = [dloc EXCEPT ![d].dir = @ + 1, ![d].result = result,
                                       ![d].failCount = failCount]
               /\ UNCHANGED <<dpc, lockHolder>> /\ ret' = NoRet
          ELSE IF failCount = Len(BeadDirs) /\ failCount > 0
          THEN DispReturn(d, 0, "querying ready beads")
          ELSE IF Len(result) = 0 THEN DispReturn(d, 0, "")
          ELSE IF dloc[d].dryRun THEN DispReturn(d, 0, "")
          ELSE /\ dpc' = [dpc EXCEPT ![d] = IF toDispatch >= 1 THEN "loop" ELSE "post"]
               /\ dloc' = [dloc EXCEPT ![d].result = result,
                                       ![d].failCount = failCount,
                                       ![d].ready = result, ![d].i = 1,
                                       ![d].toDispatch = toDispatch]
               /\ UNCHANGED lockHolder /\ ret' = NoRet

\* the bead of the current loop iteration
Cur(d) == dloc[d].ready[dloc[d].i]

\* the end of one loop iteration: position and locals after it
NextBead(d, dispatchedNow) ==
    /\ dpc' = [dpc EXCEPT ![d] =
                 IF dloc[d].i + 1 > dloc[d].toDispatch THEN "post" ELSE "loop"]
    /\ dloc' = [dloc EXCEPT ![d].i = @ + 1,
                            ![d].dispatched = @ + dispatchedNow]
    /\ ret' = NoRet

QuarantinedKeepQueued(ls) == ls \cup {LabelDispatchFailed}

\* bd update --add-label=gt:dispatch-failed --remove-label=gt:queued
Quarantined(ls) == (ls \cup {LabelDispatchFailed}) \ {LabelQueued}

\* bd update --remove-label=gt:queued --add-label=gt:queue-dispatched
Swapped(ls) == (ls \ {LabelQueued}) \cup {LabelDispatched}

FailureDescAlwaysMax(b, errText) ==
    [count |-> ToInt64(maxDispatchFailures),
     desc |-> AppendBlock(StripQueueMetadata(b.Description),
                          FormatQueueMetadata([ZeroMeta EXCEPT !.LastFailure = errText]))]

FailureDescNoCount(b, errText) ==
    LET parsed == ParseQueueMetadata(b.Description)
        meta == IF parsed = <<>> THEN ZeroMeta ELSE parsed[1]
    IN [count |-> meta.DispatchFailures,
        desc |-> AppendBlock(StripQueueMetadata(b.Description),
                             FormatQueueMetadata([meta EXCEPT !.LastFailure = errText]))]

\* the description recordDispatchFailure writes for ready bead b
FailureDesc(b, errText) ==
    LET parsed == ParseQueueMetadata(b.Description)
        meta == IF parsed = <<>> THEN ZeroMeta ELSE parsed[1]
        bumped == [meta EXCEPT !.DispatchFailures = Int64Inc(@), !.LastFailure = errText]
    IN [count |-> bumped.DispatchFailures,
        desc |-> AppendBlock(StripQueueMetadata(b.Description),
                             FormatQueueMetadata(bumped))]

\* queue_dispatch.go:280-343: dispatchSingleBead up to the return of
\* executeSling; ok is the outcome of the executor, fails that of the
\* bd update that quarantines a bead without usable metadata
DispBead(d, ok, fails) ==
    /\ dpc[d] = "loop"
    /\ UNCHANGED extraVars
    /\ UNCHANGED <<desc, convoyOf, queueFile, epc, eloc, lockHolder,
                   nEnq, nCycles, nExits, commits>>
    /\ LET b == Cur(d)
           meta == ParseQueueMetadata(b.Description)
       IN IF meta = <<>> \/ meta[1].TargetRig = ""
          THEN /\ labels' = IF fails THEN labels
                            ELSE [labels EXCEPT ![b.ID] = Quarantined(@)]
               /\ lost' = IF fails THEN Lose(b.ID, "quarantine") ELSE lost
               /\ NextBead(d, 0)
               /\ UNCHANGED <<status, activePolecats, spawned, attempts>>
          ELSE /\ attempts' = [attempts EXCEPT ![b.ID] = @ + 1]
               /\ IF ok
                  THEN /\ status' = [status EXCEPT ![b.ID] = "hooked"]
                       /\ activePolecats' = activePolecats + 1
                       /\ spawned' = [spawned EXCEPT ![b.ID] = @ + 1]
                       /\ dpc' = [dpc EXCEPT ![d] = "strip"]
                  ELSE /\ dpc' = [dpc EXCEPT ![d] = "recordDesc"]
                       /\ UNCHANGED <<status, activePolecats, spawned>>
               /\ dloc' = [dloc EXCEPT ![d].execs = @ + 1]
               /\ ret' = NoRet
               /\ UNCHANGED <<labels, lost>>

\* queue_dispatch.go:382-402: recordDispatchFailure, the description write
\* (best effort: fails)
DispRecordDesc(d, fails) ==
    /\ dpc[d] = "recordDesc"
    /\ UNCHANGED extraVars
    /\ LET f == FailureDesc(Cur(d), SlingError)
       IN /\ desc' = IF fails THEN desc ELSE [desc EXCEPT ![Cur(d).ID] = f.desc]
          /\ lost' = IF fails THEN Lose(Cur(d).ID, "description") ELSE lost
          /\ IF Int64Geq(f.count, maxDispatchFailures)
             THEN /\ dpc' = [dpc EXCEPT ![d] = "recordLabel"]
                  /\ ret' = NoRet
                  /\ UNCHANGED dloc
             ELSE NextBead(d, 0)
    /\ UNCHANGED <<status, labels, convoyOf, activePolecats, queueFile, epc, eloc,
                   lockHolder, nEnq, nCycles, nExits, spawned,
                   attempts, commits>>

\* queue_dispatch.go:404-413: recordDispatchFailure, the quarantine (best
\* effort: fails)
DispRecordLabel(d, fails) ==
    /\ dpc[d] = "recordLabel"
    /\ UNCHANGED extraVars
    /\ labels' = IF fails THEN labels
                 ELSE [labels EXCEPT ![Cur(d).ID] = Quarantined(@)]
    /\ lost' = IF fails THEN Lose(Cur(d).ID, "labels") ELSE lost
    /\ NextBead(d, 0)
    /\ UNCHANGED <<status, desc, convoyOf, activePolecats, queueFile, epc, eloc,
                   lockHolder, nEnq, nCycles, nExits, spawned,
                   attempts, commits>>

\* queue_dispatch.go:345-354: the metadata block stripped after a spawn
\* (best effort: fails)
DispStrip(d, fails) ==
    /\ dpc[d] = "strip"
    /\ UNCHANGED extraVars
    /\ LET cleanDesc == StripQueueMetadata(Cur(d).Description)
       IN IF cleanDesc # Cur(d).Description
          THEN /\ desc' = IF fails THEN desc
                          ELSE [desc EXCEPT ![Cur(d).ID] = cleanDesc]
               /\ lost' = IF fails THEN Lose(Cur(d).ID, "strip") ELSE lost
          ELSE UNCHANGED <<desc, lost>>
    /\ dpc' = [dpc EXCEPT ![d] = "swap"]
    /\ ret' = NoRet
    /\ UNCHANGED <<status, labels, convoyOf, activePolecats, queueFile, epc, eloc,
                   dloc, lockHolder, nEnq, nCycles, nExits, spawned,
                   attempts, commits>>

\* queue_dispatch.go:355-368 and 152-160: the label swap (best effort:
\* fails); the bead counts as dispatched
DispSwap(d, fails) ==
    /\ dpc[d] = "swap"
    /\ UNCHANGED extraVars
    /\ labels' = IF fails THEN labels
                 ELSE [labels EXCEPT ![Cur(d).ID] = Swapped(@)]
    /\ lost' = IF fails THEN Lose(Cur(d).ID, "swap") ELSE lost
    /\ NextBead(d, 1)
    /\ UNCHANGED <<status, desc, convoyOf, activePolecats, queueFile, epc, eloc,
                   lockHolder, nEnq, nCycles, nExits, spawned,
                   attempts, commits>>

\* queue_dispatch.go:163-177: after the loop, the state is read again; when
\* that fails (fails) the count is returned without being recorded
DispPost(d, fails) ==
    /\ dpc[d] = "post"
    /\ fails => queueFile # <<>>
    /\ UNCHANGED extraVars
    /\ UNCHANGED <<store, activePolecats, queueFile, epc, eloc,
                   nEnq, nCycles, nExits, spawned, attempts, commits>>
    /\ IF dloc[d].dispatched > 0
       THEN IF fails
            THEN /\ lost' = Lose(StateFile, "reload")
                 /\ DispReturn(d, dloc[d].dispatched, "")
            ELSE /\ dpc' = [dpc EXCEPT ![d] = "save"]
                 /\ dloc' = [dloc EXCEPT ![d].fresh = LoadQueueState(queueFile)]
                 /\ UNCHANGED <<lockHolder, lost>> /\ ret' = NoRet
       ELSE /\ DispReturn(d, 0, "")
            /\ UNCHANGED lost

\* queue_dispatch.go:178-186: RecordDispatch and SaveQueueState; when the
\* save fails (fails) the file stays as it is
DispSave(d, now, fails) ==
    /\ dpc[d] = "save"
    /\ UNCHANGED extraVars
    /\ queueFile' = IF fails THEN queueFile
                    ELSE <<RecordDispatch(dloc[d].fresh, dloc[d].dispatched, now)>>
    /\ lost' = IF fails THEN Lose(StateFile, "save") ELSE lost
    /\ DispReturn(d, dloc[d].dispatched, "")
    /\ UNCHANGED <<store, activePolecats, epc, eloc,
                   nEnq, nCycles, nExits, spawned, attempts, commits>>

----------------------------------------------------------------------------
(* Polecats *)

\* a polecat session ends; its bead is reopened or closed
PolecatExit(b, newStatus) ==
    /\ status[b] = "hooked"
    /\ UNCHANGED extraVars
    /\ activePolecats > 0
    /\ nExits' = nExits + 1
    /\ activePolecats' = activePolecats - 1
    /\ status' = [status EXCEPT ![b] = newStatus]
    /\ ret' = NoRet
    /\ UNCHANGED <<labels, desc, convoyOf, lockHolder, queueFile, epc, eloc,
                   dpc, dloc, nEnq, nCycles, spawned, attempts, commits, lost>>

----------------------------------------------------------------------------
(* The idle controller: wake signal and idle-wait *)

Consumers == {"daemon", "other"}

\* the ticker period of idle-wait and the default sleep, in seconds
TickSeconds == 5
DefaultSleep == 30

NoWakeRet == [who |-> "", val |-> FALSE]
IWIdle == [deadline |-> 0, nextTick |-> 0, early |-> FALSE,
           sleepDuration |-> 0, idleWaitMax |-> 0, err |-> ""]

WakeFrame == UNCHANGED <<queueVars, opVars, saveVars, limitVars, pureVars,
                         batchVars, detectVars>>

\* SignalWake: MkdirAll, WriteFile of the current time
SignalWake(ok) ==
    /\ IF ok
       THEN /\ wakeFile' = <<nowSec>>
            /\ nSignals' = nSignals + 1
            /\ signalAt' = IF iwpc = "sleeping" /\ signalAt = <<>>
                           THEN <<nowSec>> ELSE signalAt
       ELSE UNCHANGED <<wakeFile, nSignals, signalAt>>
    /\ wakeRet' = NoWakeRet
    /\ UNCHANGED <<nowSec, idleFile, idleWr, cpc, nConsumes, nTrue, iwpc, iwloc>>
    /\ WakeFrame

\* os.Stat(wakePath) succeeds
Stat(file) == file # <<>>

\* ConsumeWakeSignal: os.Stat; false when the file is missing
ConsumeStat(c) ==
    /\ cpc[c] = "idle"
    /\ nConsumes' = nConsumes + 1
    /\ IF ~Stat(wakeFile)
       THEN /\ wakeRet' = [who |-> c, val |-> FALSE]
            /\ cpc' = cpc
       ELSE /\ wakeRet' = NoWakeRet
            /\ cpc' = [cpc EXCEPT ![c] = "remove"]
    /\ UNCHANGED <<nowSec, wakeFile, idleFile, idleWr, nSignals, nTrue, iwpc, iwloc,
                   signalAt>>
    /\ WakeFrame

\* ConsumeWakeSignal: os.Remove with its error dropped, return true; a Remove
\* that fails leaves the file as it is
ConsumeRemove(c, removed) ==
    /\ cpc[c] = "remove"
    /\ wakeFile' = IF removed THEN <<>> ELSE wakeFile
    /\ wakeRet' = [who |-> c, val |-> TRUE]
    /\ nTrue' = nTrue + 1
    /\ cpc' = [cpc EXCEPT ![c] = "idle"]
    /\ UNCHANGED <<nowSec, idleFile, idleWr, nSignals, nConsumes, iwpc, iwloc,
                   signalAt>>
    /\ WakeFrame

\* the content of a state file that is written in place: the whole document
\* of a state, nothing after the file was truncated, or a part of a document
ZeroIdle == [Idle |-> FALSE, BackoffInterval |-> 0]
IdleWhole(st) == <<[kind |-> "whole", st |-> st]>>
IdleEmpty == <<[kind |-> "empty", st |-> ZeroIdle]>>
IdlePart == <<[kind |-> "part", st |-> ZeroIdle]>>

\* ReadIdleState: nil when the file is missing (os.ReadFile fails) and when
\* it does not hold a whole document (json.Unmarshal fails)
ReadIdleState(file) ==
    IF file = <<>> \/ file[1].kind # "whole" THEN <<>> ELSE <<file[1].st>>

IdleWrIdle == [pc |-> "idle", st |-> ZeroIdle]

\* WriteIdleState: json.MarshalIndent, then os.WriteFile opens the file and
\* truncates it; an open that fails returns the error. The calls are followed
\* up to the start of idle-wait, the only reader of the file: a later write
\* is read by nothing.
WriteIdleOpen(st, ok) ==
    /\ iwpc = "idle"
    /\ idleWr.pc = "idle"
    /\ IF ok
       THEN /\ idleFile' = IdleEmpty
            /\ idleWr' = [pc |-> "write", st |-> st]
       ELSE UNCHANGED <<idleFile, idleWr>>
    /\ wakeRet' = NoWakeRet
    /\ UNCHANGED <<nowSec, wakeFile, cpc, nSignals, nConsumes, nTrue, iwpc, iwloc,
                   signalAt>>
    /\ WakeFrame

\* WriteIdleState: os.WriteFile writes the document; a write that fails
\* leaves a part of it
WriteIdleWrite(ok) ==
    /\ idleWr.pc = "write"
    /\ idleFile' = IF ok THEN IdleWhole(idleWr.st) ELSE IdlePart
    /\ idleWr' = [idleWr EXCEPT !.pc = "idle", !.st = ZeroIdle]
    /\ wakeRet' = NoWakeRet
    /\ UNCHANGED <<nowSec, wakeFile, cpc, nSignals, nConsumes, nTrue, iwpc, iwloc,
                   signalAt>>
    /\ WakeFrame

SleepDurationNoDefault(backoffInterval, idleWaitMax) ==
    IF backoffInterval > idleWaitMax THEN idleWaitMax ELSE backoffInterval

\* deacon_idle_wait.go:59-65: the backoff interval, 30 s when it is not
\* positive, capped by --max
SleepDuration(backoffInterval, idleWaitMax) ==
    LET d1 == IF backoffInterval <= 0 THEN DefaultSleep ELSE backoffInterval
    IN IF d1 > idleWaitMax THEN idleWaitMax ELSE d1

\* runDeaconIdleWait up to the loop: the town root, the idle state, the sleep
\* duration, the deadline and the ticker
IdleWaitStart(inTown, idleWaitMax) ==
    /\ iwpc = "idle"
    /\ LET state == ReadIdleState(idleFile)
           d0 == IF state = <<>> THEN 0 ELSE state[1].BackoffInterval
           sleepDuration == SleepDuration(d0, idleWaitMax)
       IN IF ~inTown
          THEN /\ iwpc' = "returned"
               /\ iwloc' = [IWIdle EXCEPT !.err = "not in a Gas Town workspace"]
          ELSE IF state = <<>> \/ ~state[1].Idle
          THEN /\ iwpc' = "returned"
               /\ iwloc' = IWIdle
          ELSE /\ iwpc' = "sleeping"
               /\ iwloc' = [deadline |-> nowSec + sleepDuration,
                            nextTick |-> nowSec + TickSeconds,
                            early |-> FALSE,
                            sleepDuration |-> sleepDuration,
                            idleWaitMax |-> idleWaitMax,
                            err |-> ""]
    /\ wakeRet' = NoWakeRet
    /\ UNCHANGED <<nowSec, wakeFile, idleFile, idleWr, cpc, nSignals, nConsumes, nTrue,
                   signalAt>>
    /\ WakeFrame

\* a tick that takes the wake signal away when it sees it
IdleWaitTickRemoves ==
    /\ iwpc = "sleeping"
    /\ nowSec = iwloc.nextTick
    /\ IF Stat(wakeFile)
       THEN /\ iwpc' = "returned"
            /\ iwloc' = [iwloc EXCEPT !.early = TRUE]
            /\ wakeFile' = <<>>
       ELSE IF nowSec >= iwloc.deadline
       THEN /\ iwpc' = "returned"
            /\ iwloc' = iwloc
            /\ UNCHANGED wakeFile
       ELSE /\ iwpc' = iwpc
            /\ iwloc' = [iwloc EXCEPT !.nextTick = @ + TickSeconds]
            /\ UNCHANGED wakeFile
    /\ wakeRet' = NoWakeRet
    /\ UNCHANGED <<nowSec, idleFile, idleWr, cpc, nSignals, nConsumes, nTrue, signalAt>>
    /\ WakeFrame

\* one tick of the loop: the wake signal, then the deadline.  The ticker is
\* started after the deadline is computed, so the tick that falls on the
\* deadline is after it.
IdleWaitTick ==
    /\ iwpc = "sleeping"
    /\ nowSec = iwloc.nextTick
    /\ IF Stat(wakeFile)
       THEN /\ iwpc' = "returned"
            /\ iwloc' = [iwloc EXCEPT !.early = TRUE]
       ELSE IF nowSec >= iwloc.deadline
       THEN /\ iwpc' = "returned"
            /\ iwloc' = iwloc
       ELSE /\ iwpc' = iwpc
            /\ iwloc' = [iwloc EXCEPT !.nextTick = @ + TickSeconds]
    /\ wakeRet' = NoWakeRet
    /\ UNCHANGED <<nowSec, wakeFile, idleFile, idleWr, cpc, nSignals, nConsumes, nTrue,
                   signalAt>>
    /\ WakeFrame

\* a second passes; a tick that is due is handled first
Second ==
    /\ nowSec < MaxTime
    /\ iwpc = "sleeping" => nowSec < iwloc.nextTick
    /\ nowSec' = nowSec + 1
    /\ wakeRet' = NoWakeRet
    /\ UNCHANGED <<wakeFile, idleFile, idleWr, cpc, nSignals, nConsumes, nTrue, iwpc,
                   iwloc, signalAt>>
    /\ WakeFrame

----------------------------------------------------------------------------
(* The usage-limit controller (usagelimit_cmd.go); times in minutes *)

WakeBuffer == 2
MaxWakeAttempts == 3
WakeAttemptCooldown == 5

\* the zero State; a zero time.Time is <<>>
ZeroLimit == [Active |-> FALSE, ResetAt |-> 0, RecordedAt |-> 0,
              WakeAttempts |-> 0, LastWakeAttempt |-> <<>>]

\* the content of the state file, which SaveState writes in place
LimitWhole(st) == <<[kind |-> "whole", st |-> st]>>
LimitEmpty == <<[kind |-> "empty", st |-> ZeroLimit]>>
LimitPart == <<[kind |-> "part", st |-> ZeroLimit]>>

\* LoadState: (nil, nil) when the file is missing, (nil, err) when it does not
\* hold a whole document (json.Unmarshal fails); st is <<>> for nil
LoadState(file) ==
    IF file = <<>> THEN [st |-> <<>>, err |-> ""]
    ELSE IF file[1].kind # "whole" THEN [st |-> <<>>, err |-> "unmarshal"]
    ELSE [st |-> <<file[1].st>>, err |-> ""]

\* the callers of SaveState: usagelimit.RecordUsageLimit as called by
\* gt usagelimit record and by gt usagelimit set
LimitWriters == {"record", "set"}
LWIdle == [pc |-> "idle", st |-> ZeroLimit, orphan |-> FALSE]

\* the outcomes of the first half of SaveState: os.MkdirAll fails, the open
\* of os.WriteFile fails, or the file is open and truncated
SaveOutcomes == {"ok", "mkdir", "open"}

\* SaveState, usagelimit_cmd.go:598-611: os.MkdirAll, json.MarshalIndent, and
\* os.WriteFile up to its write: the file is created or truncated
SaveStateOpen(w, st, outcome) ==
    /\ outcome # "ok" => nLimFails < MaxLimFails
    /\ IF outcome = "ok"
       THEN /\ limitFile' = LimitEmpty
            /\ limWr' = [limWr EXCEPT ![w] = [pc |-> "write", st |-> st,
                                              orphan |-> FALSE]]
            /\ nLimFails' = nLimFails
       ELSE /\ limitFile' = limitFile
            /\ limWr' = limWr
            /\ nLimFails' = nLimFails + 1

\* the file after writer w wrote its document at the start of it: the whole
\* document in an empty file; in a file another writer has written to since
\* w truncated it, the whole document or, when the other document is the
\* longer one, a mix of the two
WriteOver(w, mixed) ==
    IF limitFile[1].kind = "empty" \/ ~mixed
    THEN LimitWhole(limWr[w].st) ELSE LimitPart

\* SaveState: the write of os.WriteFile.  A write that fails leaves what it
\* wrote (part) or nothing of the document in the file; a write to a file
\* that was removed in between changes no file of the directory.
SaveStateWrite(w, ok, mixed) ==
    /\ limWr[w].pc = "write"
    /\ ~ok => nLimFails < MaxLimFails
    /\ limitFile' = IF limWr[w].orphan THEN limitFile
                    ELSE IF ok THEN WriteOver(w, mixed)
                    ELSE IF mixed THEN LimitPart ELSE limitFile
    /\ limWr' = [limWr EXCEPT ![w] = LWIdle]
    /\ nLimFails' = IF ok THEN nLimFails ELSE nLimFails + 1

\* the write of w puts the whole document of w into the file
Lands(w, ok, mixed) ==
    ok /\ ~limWr[w].orphan /\ WriteOver(w, mixed) = LimitWhole(limWr[w].st)

ShouldWakeNoCooldown(st, now) ==
    /\ st.Active
    /\ ~(now < st.ResetAt + WakeBuffer)
    /\ st.WakeAttempts < MaxWakeAttempts

ShouldWakeNoMax(st, now) ==
    /\ st.Active
    /\ ~(now < st.ResetAt + WakeBuffer)
    /\ st.LastWakeAttempt # <<>> => ~(now - st.LastWakeAttempt[1] < WakeAttemptCooldown)

\* State.ShouldWake at time now
ShouldWake(st, now) ==
    IF ~st.Active THEN FALSE
    ELSE IF now < st.ResetAt + WakeBuffer THEN FALSE
    ELSE IF st.WakeAttempts >= MaxWakeAttempts THEN FALSE
    ELSE IF st.LastWakeAttempt # <<>>
            /\ now - st.LastWakeAttempt[1] < WakeAttemptCooldown THEN FALSE
    ELSE TRUE

\* State.RecordWakeAttempt at time now
RecordWakeAttempt(st, now) ==
    [st EXCEPT !.WakeAttempts = @ + 1, !.LastWakeAttempt = <<now>>]

LimitFrame == UNCHANGED <<queueVars, opVars, saveVars, wakeVars, pureVars,
                          batchVars, detectVars>>

\* usagelimit.RecordUsageLimit: a usage limit that resets in resetDuration
\* is saved
RecordUsageLimit(w, resetDuration, outcome) ==
    /\ limWr[w].pc = "idle"
    /\ SaveStateOpen(w,
                     [ZeroLimit EXCEPT !.Active = TRUE,
                                       !.ResetAt = nowMin + resetDuration,
                                       !.RecordedAt = nowMin],
                     outcome)
    /\ nRecords' = nRecords + 1
    /\ UNCHANGED <<nowMin, wakes, lastWakeAt, nClears>>
    /\ LimitFrame

\* RecordUsageLimit: the write of its SaveState; the usage limit is recorded
\* when its document is in the file
RecordWrite(w, ok, mixed) ==
    /\ SaveStateWrite(w, ok, mixed)
    /\ IF Lands(w, ok, mixed)
       THEN wakes' = 0 /\ lastWakeAt' = <<>>
       ELSE UNCHANGED <<wakes, lastWakeAt>>
    /\ UNCHANGED <<nowMin, nRecords, nClears>>
    /\ LimitFrame

\* gt usagelimit clear: ClearState removes the file; a writer that has the
\* file open goes on writing to the file that is no longer in the directory
ClearState(ok) ==
    /\ ~ok => nLimFails < MaxLimFails
    /\ IF ok
       THEN /\ limitFile' = <<>>
            /\ limWr' = [w \in LimitWriters |->
                            IF limWr[w].pc = "write"
                            THEN [limWr[w] EXCEPT !.orphan = TRUE] ELSE limWr[w]]
            /\ nLimFails' = nLimFails
       ELSE /\ UNCHANGED <<limitFile, limWr>>
            /\ nLimFails' = nLimFails + 1
    /\ nClears' = nClears + 1
    /\ UNCHANGED <<nowMin, wakes, lastWakeAt, nRecords>>
    /\ LimitFrame

\* the daemon's heartbeat as spec 4.6.3 states it: the daemon calls
\* ShouldWake on the state LoadState returns and, when it is true, wakes the
\* workers and records the attempt (RecordWakeAttempt, written to the state
\* file; the writes to the file are sequential).  LoadState returns no state
\* when the file is missing, cannot be read (fails) or holds no whole
\* document, and there is nothing to call ShouldWake on.
Heartbeat(fails) ==
    /\ fails => limitFile # <<>> /\ nLimFails < MaxLimFails
    /\ LET st == LoadState(limitFile).st
       IN IF ~fails /\ st # <<>> /\ ShouldWake(st[1], nowMin)
          THEN /\ wakes' = wakes + 1
               /\ lastWakeAt' = <<nowMin>>
               /\ limitFile' = LimitWhole(RecordWakeAttempt(st[1], nowMin))
          ELSE UNCHANGED <<wakes, lastWakeAt, limitFile>>
    /\ nLimFails' = IF fails THEN nLimFails + 1 ELSE nLimFails
    /\ UNCHANGED <<nowMin, limWr, nRecords, nClears>>
    /\ LimitFrame

\* a minute passes; the clock counts from the first RecordUsageLimit call
\* (nothing reads the time before a usage limit is recorded)
Minute ==
    /\ nRecords > 0
    /\ nowMin < MaxMinutes
    /\ nowMin' = nowMin + 1
    /\ UNCHANGED <<limitFile, limWr, nLimFails, wakes, lastWakeAt,
                   nRecords, nClears>>
    /\ LimitFrame

----------------------------------------------------------------------------
(* Specifications *)

\* no computation of a pure function is under way
\* no detectUsageLimit call
InitNoTranscript ==
    /\ transcript = <<>>
    /\ detection = <<>>

InitPureIdle ==
    /\ InitNoTranscript
    /\ codecPc = "idle"
    /\ codecMeta = ZeroMeta
    /\ codecDesc = <<>>
    /\ codecOut = <<>>
    /\ backoffCur = 0
    /\ nBackoffs = 0

\* the locals of a batch enqueue command that is not running
BIdle == [kind |-> "", candidates |-> <<>>, rigName |-> "", opts |-> ZeroOptions,
          i |-> 0, successCount |-> 0, errs |-> <<>>]

InitProcesses ==
    /\ bpc = "idle"
    /\ bloc = BIdle
    /\ convoyOf = [b \in Beads |-> {}]
    /\ activePolecats = 0
    /\ lockHolder = ""
    /\ queueFile = <<>>
    /\ epc = [e \in Enqueuers |-> "idle"]
    /\ eloc = [e \in Enqueuers |-> EIdle]
    /\ dpc = [d \in Dispatchers |-> "idle"]
    /\ dloc = [d \in Dispatchers |-> DIdle]
    /\ ret = NoRet
    /\ nEnq = 0
    /\ nCycles = 0
    /\ nExits = 0
    /\ spawned = [b \in Beads |-> 0]
    /\ attempts = [b \in Beads |-> 0]
    /\ lost = [k \in LostKeys |-> <<>>]
    /\ opc = "idle"
    /\ oploc = ZeroState
    /\ nOps = 0
    /\ svpc = [w \in Savers |-> "idle"]
    /\ svloc = [w \in Savers |-> SIdle]
    /\ rdpc = [r \in Readers |-> "idle"]
    /\ rdloc = [r \in Readers |-> RIdle]
    /\ nSaves = 0
    /\ nReads = 0
    /\ nowSec = 0
    /\ wakeFile = <<>>
    /\ cpc = [c \in Consumers |-> "idle"]
    /\ wakeRet = NoWakeRet
    /\ nSignals = 0
    /\ nConsumes = 0
    /\ nTrue = 0
    /\ iwpc = "idle"
    /\ iwloc = IWIdle
    /\ idleWr = IdleWrIdle
    /\ signalAt = <<>>
    /\ nowMin = 0
    /\ limitFile = <<>>
    /\ limWr = [w \in LimitWriters |-> LWIdle]
    /\ nLimFails = 0
    /\ wakes = 0
    /\ lastWakeAt = <<>>
    /\ nRecords = 0
    /\ nClears = 0

\* no state file yet
InitNoFile ==
    /\ runtimeDir = FALSE
    /\ fsNames = <<>>
    /\ fsData = <<>>
    /\ savedData = {}

\* the description of bead b before it is ever queued
UserDesc(b) == IF b = "b1" THEN <<Text("fix the bug")>> ELSE <<>>

\* no bead was ever queued
Init ==
    /\ status = [b \in Beads |-> "open"]
    /\ labels = [b \in Beads |-> {}]
    /\ desc = [b \in Beads |-> UserDesc(b)]
    /\ commits = [b \in Beads |-> 0]
    /\ InitProcesses
    /\ InitPureIdle
    /\ InitNoFile
    /\ idleFile = <<>>

\* the steps of the enqueueBead invocations, called with the calls of the set
EnqNext(maxEnqueues, calls, times) ==
    \E e \in Enqueuers :
        \/ /\ nEnq < maxEnqueues
           /\ \E c \in calls, now \in times, env \in EnqEnvs :
                  EnqStart(e, c[1], c[2], c[3], now, env)
        \/ \E fails \in BOOLEAN : EnqWriteDesc(e, fails)
        \/ \E fails \in BOOLEAN : EnqAddLabel(e, fails)
        \/ \E fails \in BOOLEAN : EnqRollback(e, fails)
        \/ EnqConvoy(e)
        \/ \E fails \in BOOLEAN : EnqCreateConvoy(e, fails)
        \/ \E fails \in BOOLEAN : EnqRepersist(e, fails)

\* the outcomes of a write of the dispatcher: it may fail while fewer than
\* maxLost writes have failed
MayFail(maxLost) == IF LostCount < maxLost THEN BOOLEAN ELSE {FALSE}

\* the steps of dispatchQueuedWork from the ready query on, but for the
\* quarantine of recordDispatchFailure
DispSteps(d, maxLost) ==
    \/ \E fails \in BOOLEAN : DispQuery(d, fails)
    \/ \E ok \in BOOLEAN, fails \in MayFail(maxLost) : DispBead(d, ok, fails)
    \/ \E fails \in MayFail(maxLost) : DispRecordDesc(d, fails)
    \/ \E fails \in MayFail(maxLost) : DispStrip(d, fails)
    \/ \E fails \in MayFail(maxLost) : DispSwap(d, fails)
    \/ \E fails \in MayFail(maxLost) : DispPost(d, fails)
    \/ \E now \in {"T1"}, fails \in MayFail(maxLost) : DispSave(d, now, fails)

\* the steps of dispatchQueuedWork from the ready query on
DispBody(d, maxLost) ==
    \/ DispSteps(d, maxLost)
    \/ \E fails \in MayFail(maxLost) : DispRecordLabel(d, fails)

\* the steps of dispatchQueuedWork up to the ready query; maxCycles bounds
\* the number of invocations
DispEntry(d, maxCycles, cfgMaxes, maxOverrides, batchOverrides) ==
    \/ nCycles < maxCycles /\ \E dryRun, lockErr \in BOOLEAN : DispStart(d, dryRun, lockErr)
    \/ \E fails \in BOOLEAN : DispLoad(d, fails)
    \/ \E loaded, enabled \in BOOLEAN, cm \in cfgMaxes, mo \in maxOverrides,
          cb \in ConfigBatchSizes, bo \in batchOverrides :
          DispLimits(d, loaded, enabled, cm, mo, cb, bo)

\* the steps of the dispatchQueuedWork invocations
DispNext(maxCycles, cfgMaxes, maxOverrides, batchOverrides, maxLost) ==
    \E d \in Dispatchers :
        \/ DispEntry(d, maxCycles, cfgMaxes, maxOverrides, batchOverrides)
        \/ DispBody(d, maxLost)

\* the same over beads that were never queued before, in fewer than
\* maxDispatchFailures invocations: the counter of a bead is raised once per
\* invocation, so that no bead reaches the quarantine of
\* recordDispatchFailure (BreakerOutOfReach) and the step is left out
DispNextEarly(maxCycles, maxLost) ==
    \E d \in Dispatchers :
        \/ DispEntry(d, maxCycles, {2}, {0}, {0})
        \/ DispSteps(d, maxLost)

\* no invocation is at the quarantine of recordDispatchFailure
BreakerOutOfReach == \A d \in Dispatchers : dpc[d] # "recordLabel"

EnvNext ==
    nExits < MaxExits /\ \E b \in Beads, s \in {"open", "closed"} : PolecatExit(b, s)

\* Spec: two enqueueBead invocations, in which any bd command may fail, race
\* on bead b1 with the dispatchers, whose lock, loads and queries may fail and
\* of whose own writes at most RaceLost fail (SpecLabelLast, SpecLossy and the
\* specifications over the filled queue let them fail)
RaceCalls ==
    { <<"b1", "r1", [ZeroOptions EXCEPT !.NoConvoy = TRUE]>>,
      <<"b1", "r1", ZeroOptions>>,
      <<"b1", "r1", [ZeroOptions EXCEPT !.NoConvoy = TRUE, !.Force = TRUE]>>,
      <<"ghost", "r1", ZeroOptions>>,
      <<"b1", "nowhere", ZeroOptions>>,
      <<"b2", "r1", ZeroOptions>>,
      <<"b1", "r1", [ZeroOptions EXCEPT !.Formula = "nonesuch"]>>,
      <<"b1", "r1", [ZeroOptions EXCEPT !.Formula = "uncookable"]>>,
      <<"b1", "r1", [ZeroOptions EXCEPT !.DryRun = TRUE]>> }

Next ==
    \/ EnqNext(MaxEnqueues, RaceCalls, {"T1"})
    \/ DispNextEarly(MaxCycles, RaceLost)
    \/ EnvNext

Spec == Init /\ [][Next]_vars

\* SpecLabelLast: one enqueueBead call with the dispatch cycles of Spec, in
\* which a command of the dispatcher may fail
NextLabelLast ==
    \/ EnqNext(1, RaceCalls, {"T1"})
    \/ DispNextEarly(MaxCycles, MaxLost)
    \/ EnvNext

SpecLabelLast == Init /\ [][NextLabelLast]_vars

\* SpecBatch: dispatch cycles over a queue that is already filled.  b1 and b2
\* were enqueued earlier (to r1 and r2); b3 was labelled gt:queued by hand and
\* has no metadata block.
EnqueuedDesc(b, rigName) ==
    AppendBlock(UserDesc(b), FormatQueueMetadata(NewQueueMetadata(rigName, "T1")))

FailedDesc(b, rigName, n) ==
    AppendBlock(UserDesc(b),
        FormatQueueMetadata([NewQueueMetadata(rigName, "T1") EXCEPT
            !.DispatchFailures = ToInt64(n),
            !.LastFailure = IF n > 0 THEN SlingError ELSE ""]))


InitBatch ==
    /\ status = [b \in Beads |-> "open"]
    /\ labels = [b \in Beads |-> {LabelQueued}]
    /\ desc = [b \in Beads |->
                 IF b = "b1" THEN EnqueuedDesc(b, "r1")
                 ELSE IF b = "b2" THEN EnqueuedDesc(b, "r2")
                 ELSE UserDesc(b)]
    /\ commits = [b \in Beads |-> IF b = "b3" THEN 0 ELSE 1]
    /\ InitProcesses
    /\ InitPureIdle
    /\ InitNoFile
    /\ idleFile = <<>>

NextBatch ==
    \/ DispNext(BatchCycles, ConfigMaxPolecats, MaxPolOverrides, BatchOverrides, MaxLost)
    \/ EnvNext

SpecBatch == InitBatch /\ [][NextBatch]_vars

\* SpecLossy: two dispatch cycles over the filled queue of SpecBatch, b2
\* having failed twice before, with the settings fixed, in which up to
\* LossyLost writes of the dispatcher fail
InitLossy ==
    /\ status = [b \in Beads |-> "open"]
    /\ labels = [b \in Beads |-> {LabelQueued}]
    /\ desc = [b \in Beads |->
                 IF b = "b1" THEN EnqueuedDesc(b, "r1")
                 ELSE IF b = "b2" THEN FailedDesc(b, "r2", 2)
                 ELSE UserDesc(b)]
    /\ commits = [b \in Beads |-> IF b = "b3" THEN 0 ELSE 1]
    /\ InitProcesses
    /\ InitPureIdle
    /\ InitNoFile
    /\ idleFile = <<>>

NextLossy ==
    \/ DispNext(LossyCycles, {2}, {0}, {0}, LossyLost)
    \/ EnvNext

SpecLossy == InitLossy /\ [][NextLossy]_vars

\* SpecRetry: four dispatch cycles over the filled queue of SpecBatch with the
\* settings fixed, enough for a bead to fail three times and be left out of
\* a fourth cycle
NextRetry ==
    \/ DispNext(RetryCycles, {2}, {0}, {0}, MaxLost)
    \/ EnvNext

SpecRetry == InitBatch /\ [][NextRetry]_vars

\* SpecEnqueue: enqueueBead calls on beads in the states the queue leaves
\* them in.  b1 (town level) is queued to r1 and has failed once, b2 (of rig
\* r2) is queued to r2, b3 was quarantined after three failures.
InitEnqueue ==
    /\ status = [b \in Beads |-> "open"]
    /\ labels = [b \in Beads |->
                   IF b = "b3" THEN {LabelDispatchFailed} ELSE {LabelQueued}]
    /\ desc = [b \in Beads |->
                 IF b = "b1" THEN FailedDesc(b, "r1", 1)
                 ELSE IF b = "b2" THEN FailedDesc(b, "r2", 0)
                 ELSE FailedDesc(b, "r2", maxDispatchFailures)]
    /\ commits = [b \in Beads |-> 1]
    /\ InitProcesses
    /\ InitPureIdle
    /\ InitNoFile
    /\ idleFile = <<>>

EnqueueCalls ==
    { <<"b1", "r1", ZeroOptions>>,
      <<"b1", "r2", [ZeroOptions EXCEPT !.NoConvoy = TRUE]>>,
      <<"b1", "r1", [ZeroOptions EXCEPT !.Formula = "mol-polecat-work"]>>,
      <<"b1", "r1", [ZeroOptions EXCEPT !.Formula = "nonesuch"]>>,
      <<"b2", "r2", [ZeroOptions EXCEPT !.Args = "do it"]>>,
      <<"b2", "r1", ZeroOptions>>,
      <<"b2", "r1", [ZeroOptions EXCEPT !.Force = TRUE]>>,
      <<"b1", "nowhere", ZeroOptions>>,
      <<"b3", "r2", ZeroOptions>>,
      <<"b3", "r2", [ZeroOptions EXCEPT !.NoConvoy = TRUE]>> }

NextEnqueue == EnqNext(SeqEnqueues, EnqueueCalls, {"T2"})

\* SpecPause: the operator pauses and resumes the queue while the dispatchers
\* run their cycles.  b1 was enqueued and has failed twice, b2 was enqueued,
\* b3 is not queued.
InitPause ==
    /\ status = [b \in Beads |-> "open"]
    /\ labels = [b \in Beads |-> IF b = "b3" THEN {} ELSE {LabelQueued}]
    /\ desc = [b \in Beads |->
                 IF b = "b1" THEN FailedDesc(b, "r1", 2)
                 ELSE IF b = "b2" THEN FailedDesc(b, "r2", 0)
                 ELSE UserDesc(b)]
    /\ commits = [b \in Beads |-> IF b = "b3" THEN 0 ELSE 1]
    /\ InitProcesses
    /\ InitPureIdle
    /\ InitNoFile
    /\ idleFile = <<>>

OpNext ==
    \/ nOps < MaxOps /\ \E kind \in {"pause", "resume"}, fails \in BOOLEAN : OpLoad(kind, fails)
    \/ \E now \in {"T2"}, fails \in BOOLEAN : OpSave("operator", now, fails)

NextPause ==
    \/ DispNext(PauseCycles, {2}, {0}, {0}, MaxLost)
    \/ EnvNext
    \/ OpNext

SpecPause == InitPause /\ [][NextPause]_vars

SpecEnqueue == InitEnqueue /\ [][NextEnqueue]_vars

----------------------------------------------------------------------------
(* Dispatch exclusivity *)

\* C1: over any interleaving of the two dispatchQueuedWork invocations (cli
\* and daemon) no bead is spawned twice: the number of successful executor
\* invocations for a bead never exceeds the number of times it was put on
\* the queue, so a bead enqueued once is spawned at most once.
C1_NoDoubleSpawn == \A b \in Beads : spawned[b] <= commits[b]

\* C2: at most one dispatchQueuedWork invocation is past the try-lock, and
\* an invocation whose try-lock fails (TryLock returns false, the lock being
\* held) returns (0, nil) and changes nothing:
\* no bead, no state file, no polecat, no executor call, and the position
\* of the invocation holding the lock is untouched.
C2_AtMostOnePastLock ==
    Cardinality({d \in Dispatchers : dpc[d] # "idle"}) <= 1

C2_FailedTryLockStep ==
    (/\ nCycles' = nCycles + 1 /\ lockHolder # ""
     /\ ret'.err # "acquiring dispatch lock") =>
        /\ ret'.who \in Dispatchers \ {lockHolder}
        /\ ret'.n = 0 /\ ret'.err = ""
        /\ UNCHANGED <<store, queueFile, activePolecats, lockHolder, dpc, dloc,
                       spawned, attempts>>

C2_TryLock == []C2_AtMostOnePastLock /\ [][C2_FailedTryLockStep]_vars

\* the daemon's try-lock has just failed while the cli invocation is
\* dispatching b1
C2_Witness ==
    /\ lockHolder = "cli" /\ dpc["cli"] = "loop"
    /\ dpc["daemon"] = "idle"
    /\ ret = Ret("daemon", 0, "")

----------------------------------------------------------------------------
(* Capacity *)

Max(a, b) == IF a > b THEN a ELSE b

\* the dispatchers that have computed their limits in the current cycle
PastLimits == {d \in Dispatchers : dpc[d] \notin {"idle", "load", "limits"}}

\* C3: with maxPolecats > 0 and polecats started only by the dispatcher, a
\* cycle that read `active` polecats invokes the executor at most
\* max(0, maxPolecats - active) times (zero times when active >= maxPolecats)
\* and the number of active polecats never exceeds the cycle's maxPolecats.
C3_PolecatCeiling ==
    \A d \in PastLimits :
        dloc[d].maxPolecats > 0 =>
            /\ dloc[d].execs <= Max(0, dloc[d].maxPolecats - dloc[d].active)
            /\ activePolecats <= dloc[d].maxPolecats

\* a cycle with maxPolecats = 2 found one polecat active and two beads ready,
\* spawned one and stopped with the ceiling reached
C3_Witness ==
    \E d \in Dispatchers :
        /\ dpc[d] = "post"
        /\ dloc[d].maxPolecats = 2 /\ dloc[d].active = 1
        /\ Len(dloc[d].ready) >= 2 /\ dloc[d].batchSize = 2
        /\ dloc[d].execs = 1 /\ activePolecats = 2

----------------------------------------------------------------------------
(* Label-last enqueue *)

\* ready bead b carries a metadata block with a target rig
ValidSnapshot(b) ==
    LET meta == ParseQueueMetadata(b.Description)
    IN meta # <<>> /\ meta[1].TargetRig # ""

\* C4: when a single enqueueBead call is interleaved with dispatch cycles on
\* beads that start without gt:queued, every bead the ready-set query returns
\* has a parseable metadata block with non-empty target_rig, and no bead is
\* quarantined except after three failed executor invocations.
C4_LabelLast ==
    nEnq <= 1 =>
        /\ \A d \in Dispatchers : \A j \in 1..Len(dloc[d].ready) :
               ValidSnapshot(dloc[d].ready[j])
        /\ \A b \in Beads :
               LabelDispatchFailed \in labels[b] => attempts[b] >= maxDispatchFailures

----------------------------------------------------------------------------
(* Labels and metadata of the stored beads *)

MetaOf(b) == ParseQueueMetadata(desc[b])
HasValidMeta(b) == MetaOf(b) # <<>> /\ MetaOf(b)[1].TargetRig # ""
\* dispatch_failures as stored in the bead's description (0 without a block)
CounterOf(description) ==
    LET meta == ParseQueueMetadata(description)
    IN IF meta = <<>> THEN 0 ELSE IntOf(meta[1].DispatchFailures)
Counter(b) == CounterOf(desc[b])

\* C5: in every reachable state, every bead that carries gt:queued and not
\* gt:dispatch-failed has a description with a parseable metadata block whose
\* target_rig is non-empty.
C5_LabelMetadataCoherence ==
    \A b \in Beads :
        (LabelQueued \in labels[b] /\ LabelDispatchFailed \notin labels[b])
            => HasValidMeta(b)

\* C6: in every reachable state no bead carries both gt:queued and
\* gt:queue-dispatched.
C6_PostDispatchExclusion ==
    \A b \in Beads : ~(LabelQueued \in labels[b] /\ LabelDispatched \in labels[b])

\* C7: quarantine is terminal: a bead that carries gt:dispatch-failed does
\* not carry gt:queued, and no later step puts gt:queued on it or invokes
\* the executor for it.
C7_QuarantinedNotQueued ==
    \A b \in Beads :
        LabelDispatchFailed \in labels[b] => LabelQueued \notin labels[b]

C7_QuarantinedStep ==
    \A b \in Beads :
        LabelDispatchFailed \in labels[b] =>
            /\ LabelQueued \notin labels'[b]
            /\ attempts'[b] = attempts[b]

C7_QuarantineTerminal == []C7_QuarantinedNotQueued /\ [][C7_QuarantinedStep]_vars

\* C8 as stated: in every reachable state a bead that carries
\* gt:dispatch-failed has dispatch_failures >= 3 in its metadata.
C8_QuarantinedCounter ==
    \A b \in Beads :
        LabelDispatchFailed \in labels[b] => Counter(b) >= maxDispatchFailures

\* the dispatcher d quarantines bead b for its missing metadata: it holds the
\* lock, the snapshot of b has no block or no target_rig, and the step
\* leaves the description, and with it dispatch_failures, as it is
QuarantinedUnusable(d, b) ==
    /\ lockHolder = d /\ dpc[d] = "loop" /\ Cur(d).ID = b
    /\ ~ValidSnapshot(Cur(d))
    /\ desc'[b] = desc[b]

\* the dispatcher d quarantines bead b in recordDispatchFailure: it holds the
\* lock and counted snapshot counter + 1 >= 3; the description stores that
\* counter when its update went through, and is still the one of the
\* snapshot, with the counter one short, when that update failed
QuarantinedByBreaker(d, b) ==
    /\ lockHolder = d /\ dpc[d] = "recordLabel" /\ Cur(d).ID = b
    /\ ValidSnapshot(Cur(d))
    /\ LET counted == CounterOf(Cur(d).Description) + 1
       IN /\ counted >= maxDispatchFailures
          /\ \/ /\ Counter(b) = counted
                /\ HasValidMeta(b)
                /\ MetaOf(b)[1].LastFailure = SlingError
             \/ /\ Failed(b, "description")
                /\ desc[b] = Cur(d).Description
                /\ Counter(b) = counted - 1
    /\ desc'[b] = desc[b]

\* C8 (amended): gt:dispatch-failed is put on a bead only by the dispatcher
\* that holds the dispatch lock, either because the bead's snapshot has no
\* metadata block or an empty target_rig (dispatch_failures is not touched),
\* or after recordDispatchFailure counted dispatch_failures >= 3 for it; the
\* description then stores that counter, unless its update failed, in which
\* case the label is put on the bead with the stored counter one short.
C8_QuarantineStep ==
    \A b \in Beads :
        (LabelDispatchFailed \notin labels[b] /\ LabelDispatchFailed \in labels'[b])
            => \E d \in Dispatchers :
                   QuarantinedUnusable(d, b) \/ QuarantinedByBreaker(d, b)

C8_QuarantineOnlyByBreaker == [][C8_QuarantineStep]_vars

\* the description update of the third failure of b2 failed and the label
\* update went through: b2 carries gt:dispatch-failed with a stored counter
\* of 2
C8_LostWitness ==
    /\ LabelDispatchFailed \in labels["b2"] /\ Failed("b2", "description")
    /\ Counter("b2") = maxDispatchFailures - 1

\* b3 was quarantined for its missing metadata and b2 by the third recorded
\* failure
C8_Witness ==
    /\ LabelDispatchFailed \in labels["b3"] /\ MetaOf("b3") = <<>>
    /\ LabelDispatchFailed \in labels["b2"] /\ Counter("b2") = maxDispatchFailures

----------------------------------------------------------------------------
(* Circuit breaker *)

\* bead b was enqueued and every executor invocation for it has failed
AlwaysFails(b) == commits[b] > 0 /\ spawned[b] = 0

\* a dispatcher is at one of the positions pcs of recordDispatchFailure for b
Recording(b, pcs) ==
    \E d \in Dispatchers : dpc[d] \in pcs /\ Cur(d).ID = b

\* the circuit breaker has worked for bead b so far
BreakerCounts(b) ==
    /\ attempts[b] <= maxDispatchFailures
    /\ Counter(b) = IF Recording(b, {"recordDesc"})
                    THEN attempts[b] - 1 ELSE attempts[b]
    /\ HasValidMeta(b)
    /\ Counter(b) > 0 => MetaOf(b)[1].LastFailure = SlingError
    /\ IF Counter(b) < maxDispatchFailures \/ Recording(b, {"recordLabel"})
       THEN LabelQueued \in labels[b] /\ LabelDispatchFailed \notin labels[b]
       ELSE LabelQueued \notin labels[b] /\ LabelDispatchFailed \in labels[b]

\* C9 as stated: a bead whose executor invocation always fails is attempted
\* at most once per cycle and three times in all; each failure raises
\* dispatch_failures by one and stamps last_failure, the bead stays
\* gt:queued after the first two, and the third replaces gt:queued by
\* gt:dispatch-failed with the metadata block kept; it is never attempted
\* again.
C9_CircuitBreaker ==
    /\ \A d \in Dispatchers : NoRepeat(dloc[d].ready)
    /\ \A b \in Beads : AlwaysFails(b) => BreakerCounts(b)

\* the number of bd updates of the given kind that failed for bead b
LostOf(b, kind) == Cardinality({j \in 1..Len(lost[b]) : lost[b][j] = kind})

\* the circuit breaker for bead b with the updates that failed counted in:
\* the stored counter is the number of failures recorded less the ones whose
\* description update failed, and never above 3; the block stays usable; the
\* bead carries gt:dispatch-failed, without gt:queued, only with a stored
\* counter of 3, or of 2 after a description update failed; it carries
\* gt:queued otherwise, and with a stored counter of 3 only while the label
\* update is to come or after it failed
BreakerCountsLost(b) ==
    LET recorded == IF Recording(b, {"recordDesc"})
                    THEN attempts[b] - 1 ELSE attempts[b]
        meta == MetaOf(b)
        counter == IF meta = <<>> THEN 0 ELSE IntOf(meta[1].DispatchFailures)
    IN /\ attempts[b] <= maxDispatchFailures + LostOf(b, "description")
       /\ counter = recorded - LostOf(b, "description")
       /\ counter <= maxDispatchFailures
       /\ meta # <<>> /\ meta[1].TargetRig # ""
       /\ counter > 0 => meta[1].LastFailure = SlingError
       /\ IF LabelDispatchFailed \in labels[b]
          THEN /\ LabelQueued \notin labels[b]
               /\ ~Recording(b, {"recordDesc", "recordLabel"})
               /\ \/ counter = maxDispatchFailures
                  \/ /\ counter = maxDispatchFailures - 1
                     /\ Failed(b, "description")
          ELSE /\ LabelQueued \in labels[b]
               /\ \/ counter < maxDispatchFailures
                  \/ Recording(b, {"recordLabel"})
                  \/ Failed(b, "labels")

\* the executor is invoked only for a bead that carries gt:queued without
\* gt:dispatch-failed and stores a counter below 3, and a bead's labels
\* change to quarantined in one step
AttemptStep ==
    \A b \in Beads :
        /\ attempts'[b] # attempts[b] =>
               /\ attempts'[b] = attempts[b] + 1
               /\ LabelQueued \in labels[b] /\ LabelDispatchFailed \notin labels[b]
               /\ Counter(b) < maxDispatchFailures
        /\ (AlwaysFails(b) /\ labels'[b] # labels[b]) =>
               /\ labels'[b] = Quarantined(labels[b])
               /\ Recording(b, {"recordLabel"})
               /\ desc'[b] = desc[b]

\* C9 (amended): a bead whose executor invocation always fails is attempted
\* at most once per cycle, and only while it carries gt:queued with a stored
\* counter below 3: three times, and once more for each failure whose
\* description update failed.  A failure whose description update goes
\* through raises the stored counter by one and stamps last_failure; one
\* whose update fails leaves the description as it was.  The failure that
\* counts 3 replaces gt:queued by gt:dispatch-failed with the block kept,
\* also when its description update failed (stored counter 2); when its
\* label update fails the bead keeps gt:queued with a stored counter of 3.
\* In each case the bead is not attempted again.
C9_BreakerCounts ==
    /\ [](\A d \in Dispatchers : NoRepeat(dloc[d].ready))
    /\ [](\A b \in Beads : AlwaysFails(b) => BreakerCountsLost(b))
    /\ [][AttemptStep]_vars

\* b1 failed in three cycles and is quarantined; a fourth cycle has returned
\* without attempting it
C9_Witness ==
    /\ AlwaysFails("b1") /\ attempts["b1"] = maxDispatchFailures
    /\ LabelDispatchFailed \in labels["b1"]
    /\ nCycles = RetryCycles
    /\ \A d \in Dispatchers : dpc[d] = "idle"
    /\ ret.who \in Dispatchers /\ ret.n = 0 /\ ret.err = ""

\* the description update of one failure of b1 failed: b1 was attempted in
\* four cycles and is quarantined
C9_LostDescWitness ==
    /\ AlwaysFails("b1") /\ attempts["b1"] = maxDispatchFailures + 1
    /\ Failed("b1", "description")
    /\ LabelDispatchFailed \in labels["b1"] /\ Counter("b1") = maxDispatchFailures

\* the label update of the third failure of b1 failed: b1 keeps gt:queued
\* with a stored counter of 3 and the cycle after it has not attempted it
C9_LostLabelWitness ==
    /\ AlwaysFails("b1") /\ attempts["b1"] = maxDispatchFailures
    /\ Failed("b1", "labels")
    /\ LabelQueued \in labels["b1"] /\ Counter("b1") = maxDispatchFailures
    /\ nCycles = RetryCycles
    /\ \A d \in Dispatchers : dpc[d] = "idle"

\* C10: no increment of dispatch_failures is lost: while a bead stays
\* queued (open and labelled gt:queued) the counter stored in its metadata
\* never decreases, whatever enqueue and dispatch steps interleave.
C10_CounterStep ==
    \A b \in Beads :
        (/\ status[b] = "open" /\ LabelQueued \in labels[b]
         /\ status'[b] = "open" /\ LabelQueued \in labels'[b])
            => \E after \in {desc'[b]} : CounterOf(after) >= Counter(b)

C10_NoLostIncrement == [][C10_CounterStep]_vars

----------------------------------------------------------------------------
(* enqueueBead: idempotence and rollback *)

\* the call passes the validation of sling_queue.go:46-63
PassesValidation(c) ==
    /\ c.bead \in Beads /\ c.rig \in KnownRigs
    /\ c.opts.Force \/ checkCrossRigGuard(c.bead, c.rig)

\* the step is an enqueueBead call that returned before its first write,
\* on a bead that is open and carries gt:queued
ReturnedOnQueued ==
    /\ nEnq' = nEnq + 1 /\ ret'.call # NoCall
    /\ ret'.call[1].bead \in Beads
    /\ LabelQueued \in labels[ret'.call[1].bead]
    /\ status[ret'.call[1].bead] = "open"

\* no enqueueBead call gets past its checks on an open bead with gt:queued
NoStartOnQueued ==
    \A e \in Enqueuers :
        (epc[e] = "idle" /\ epc'[e] # "idle") =>
            ~(LabelQueued \in labels[eloc'[e].bead]
              /\ status[eloc'[e].bead] = "open")

\* C11 as stated: enqueueBead on an open bead that carries gt:queued
\* returns success and writes nothing (description, labels and convoy
\* unchanged), whatever rig or options the call names.
C11_IdempotentAnyCall ==
    [][NoStartOnQueued /\ (ReturnedOnQueued =>
            (ret'.err = "" /\ UNCHANGED store))]_vars

\* C11 (amended): enqueueBead on an open bead that carries gt:queued writes
\* nothing; it returns success when the workspace is found, the call passes
\* the validation of the bead id, the rig name and the cross-rig guard and
\* the bead's info is read, and the error of the failing step otherwise.
C11_IdempotentStep ==
    /\ NoStartOnQueued
    /\ ReturnedOnQueued =>
          /\ UNCHANGED store
          /\ ret'.err = IF PassesValidation(ret'.call[1]) /\ ret'.env = ""
                        THEN "" ELSE "error"

C11_Idempotent == [][C11_IdempotentStep]_vars

\* a call naming another rig has just returned nil on b1,
\* which is still queued to r1 with its counter and no second block
C11_Witness ==
    /\ ret.call = Call("b1", "r2", [ZeroOptions EXCEPT !.NoConvoy = TRUE])
    /\ ret.err = ""
    /\ desc["b1"] = FailedDesc("b1", "r1", 1)
    /\ labels["b1"] = {LabelQueued} /\ convoyOf["b1"] = {}

\* C12 as stated: when the description write succeeded and the add-label failed,
\* enqueueBead returns an error, the bead does not carry gt:queued and its
\* description is the one it had before the call.
C12_RollbackStep ==
    \A e \in Enqueuers :
        (epc[e] = "rollback" /\ epc'[e] = "idle") =>
            /\ ret' = Ret(e, 0, "error")
            /\ LabelQueued \notin labels'[eloc[e].bead]
            /\ desc'[eloc[e].bead] = eloc[e].infoDesc

C12_Rollback == [][C12_RollbackStep]_vars

\* C12 (amended): when the description write succeeded and the add-label
\* failed, enqueueBead returns an error and has changed no label; its
\* rollback write, when that command succeeds, leaves the description it read
\* before the call with any metadata block removed: the part before the
\* block, which is the whole description when it held no block.
C12_StripStep ==
    \A e \in Enqueuers :
        /\ (epc[e] = "addLabel" /\ epc'[e] = "rollback") => UNCHANGED store
        /\ (epc[e] = "rollback" /\ epc'[e] = "idle") =>
              LET b == eloc[e].bead
                  before == eloc[e].infoDesc
              IN /\ ret' = Ret(e, 0, "error")
                 /\ labels' = labels
                 /\ desc'[b] # desc[b] =>
                       /\ ParseQueueMetadata(desc'[b]) = <<>>
                       /\ Len(desc'[b]) <= Len(before)
                       /\ desc'[b] = SubSeq(before, 1, Len(desc'[b]))
                       /\ ParseQueueMetadata(before) = <<>> => desc'[b] = before

C12_RollbackStrips == [][C12_StripStep]_vars

\* the add-label of an enqueue of the quarantined bead b3 failed and the
\* rollback has left b3 without the metadata block it had before the call
C12_Witness ==
    /\ ret.who \in Enqueuers /\ ret.err = "error" /\ ret.call = NoCall
    /\ desc["b3"] = UserDesc("b3")
    /\ labels["b3"] = {LabelDispatchFailed}

----------------------------------------------------------------------------
(* Pause *)

\* queue-state.json exists and records paused = true
FilePaused(file) == file # <<>> /\ file[1].Paused

\* C13: a pause that the operator saved at any point of a running dispatch
\* cycle is not clobbered: when the dispatcher saves after its post-batch
\* reload and RecordDispatch, a file that records paused = true still
\* records paused = true.
C13_SaveStep ==
    \A d \in Dispatchers :
        (dpc[d] = "save" /\ dpc'[d] = "idle" /\ FilePaused(queueFile))
            => FilePaused(queueFile')

C13_PauseNotClobbered == [][C13_SaveStep]_vars

\* C14: an invocation that loads a state file with paused = true returns
\* (0, nil) at once: it invokes the executor for no bead and changes no
\* bead label, no description and no state file.
C14_LoadStep ==
    \A d \in Dispatchers :
        (/\ dpc[d] = "load" /\ dpc'[d] # "load" /\ FilePaused(queueFile)
         /\ ret' # Ret(d, 0, "loading queue state")) =>
            /\ dpc'[d] = "idle" /\ ret' = Ret(d, 0, "")
            /\ UNCHANGED <<store, queueFile, activePolecats, spawned, attempts>>

C14_PausedReturns == [][C14_LoadStep]_vars

\* the queue was paused with b1 and b2 ready; the only dispatch cycle so far
\* has returned (0, nil) and no bead was attempted
C14_Witness ==
    /\ FilePaused(queueFile) /\ nOps = 1 /\ opc = "idle"
    /\ nCycles = 1 /\ ret = Ret("cli", 0, "")
    /\ \A d \in Dispatchers : dpc[d] = "idle"
    /\ \A b \in Beads : attempts[b] = 0
    /\ LabelQueued \in labels["b1"] /\ LabelQueued \in labels["b2"]

----------------------------------------------------------------------------
(* Atomic save *)

\* the file a save of an earlier run left behind
OldData == MarshalIndent(SetPaused(ZeroState, "operator", "T1")) \o <<NewLine>>

\* SpecSave: the dispatcher and the operator save the state file while a
\* reader loads it; a save can fail or its process can die at every step.
\* The file is missing at first, or holds what an earlier save wrote.
InitSave ==
    /\ status = [b \in Beads |-> "open"]
    /\ labels = [b \in Beads |-> {}]
    /\ desc = [b \in Beads |-> UserDesc(b)]
    /\ commits = [b \in Beads |-> 0]
    /\ InitProcesses
    /\ InitPureIdle
    /\ idleFile = <<>>
    /\ \/ InitNoFile
       \/ /\ runtimeDir = TRUE
          /\ fsData = <<OldData>>
          /\ fsNames = LinkName(<<>>, TargetPath, 1)
          /\ savedData = {OldData}

\* what the callers save: RecordDispatch on the loaded state, SetPaused or
\* SetResumed on the loaded state
SaveStates(w) ==
    IF w = "dispatcher"
    THEN {RecordDispatch(ZeroState, 1, "T2"),
          RecordDispatch(SetPaused(ZeroState, "operator", "T1"), 2, "T2")}
    ELSE {SetPaused(ZeroState, "operator", "T2"),
          SetResumed(SetPaused(ZeroState, "operator", "T1"))}

NextSave ==
    \/ \E w \in Savers :
          \/ nSaves < MaxSaves /\ \E st \in SaveStates(w), ok \in BOOLEAN :
                                     SaveMkdir(w, st, ok)
          \/ \E ok \in BOOLEAN : SaveCreateTemp(w, ok)
          \/ \E ok \in BOOLEAN : SaveWrite(w, ok)
          \/ \E ok \in BOOLEAN : SaveClose(w, ok)
          \/ \E ok \in BOOLEAN : SaveRename(w, ok)
          \/ \E removed \in BOOLEAN : SaveCleanup(w, removed)
          \/ SaveCrash(w)
    \/ \E r \in Readers :
          \/ nReads < MaxReads /\ \E fails \in BOOLEAN : ReadOpen(r, fails)
          \/ ReadAll(r)

SpecSave == InitSave /\ [][NextSave]_vars

\* a load that found the file and could read it read the complete content of
\* one save
CompleteRead(r) ==
    (rdpc[r] = "done" /\ rdloc[r].found /\ rdloc[r].err # "read") =>
        /\ rdloc[r].obs \in savedData
        /\ rdloc[r].err = ""
        /\ MarshalIndent(rdloc[r].state) \o <<NewLine>> = rdloc[r].obs

\* a save that returns an error after it created its temp file has removed it
FailedSaveStep ==
    \A w \in Savers :
        (svpc[w] \in {"write", "close", "rename", "cleanup"}
         /\ svpc'[w] = "idle" /\ svloc'[w].err # "")
            => ~(runtimeDir' /\ svloc[w].tmpPath \in DOMAIN fsNames')

\* the same for the saves whose os.Remove succeeded; a save whose os.Remove
\* failed returns its first error and changes no file
FailedSaveRemovedStep ==
    \A w \in Savers :
        (svpc[w] \in {"write", "close", "rename", "cleanup"}
         /\ svpc'[w] = "idle" /\ svloc'[w].err # "")
            => IF svloc'[w].left = ""
               THEN ~(runtimeDir' /\ svloc[w].tmpPath \in DOMAIN fsNames')
               ELSE /\ svloc'[w].left = svloc[w].tmpPath
                    /\ svloc'[w].err = svloc[w].err
                    /\ UNCHANGED <<fsNames, fsData>>

\* only a rename that succeeds changes what the target holds
TargetStep ==
    TargetView' # TargetView =>
        \E w \in Savers : /\ svpc[w] = "rename" /\ svpc'[w] = "idle"
                          /\ svloc'[w].err = ""
                          /\ TargetView' = <<svloc[w].data>>

\* C15 as stated: with concurrent savers, failing saves and savers that die
\* at any step, a load finds no file or the complete content of one save,
\* never a truncated or mixed file; a save that fails after it created its
\* temp file removes the temp file and leaves the target as it was.
C15_TempAlwaysRemoved ==
    /\ [](\A r \in Readers : CompleteRead(r))
    /\ [][FailedSaveStep /\ TargetStep]_vars

\* C15 amended: a load that can read the file finds the complete content of
\* one save, never a truncated or mixed file; a save that fails after it
\* created its temp file leaves the target as it was and removes the temp
\* file when its os.Remove succeeds; when os.Remove fails too, the temp file
\* stays and the save returns its first error.
C15_AtomicSave ==
    /\ [](\A r \in Readers : CompleteRead(r))
    /\ [][FailedSaveRemovedStep /\ TargetStep]_vars

\* the reader loaded the dispatcher's complete save; the operator's save
\* failed in its write and removed its half-written temp file: the target is
\* the only file of the directory
C15_Witness ==
    /\ rdpc["reader"] = "done" /\ rdloc["reader"].found
    /\ rdloc["reader"].state = RecordDispatch(ZeroState, 1, "T2")
    /\ svpc["dispatcher"] = "idle" /\ svloc["dispatcher"].err = ""
    /\ svpc["operator"] = "idle" /\ svloc["operator"].err = "write"
    /\ svloc["operator"].left = ""
    /\ DOMAIN fsNames = {TargetPath}
    /\ nSaves = 2

\* the operator's save failed in its write and its os.Remove failed too: the
\* half-written temp file is still in the directory
C15_LeftWitness ==
    /\ svpc["operator"] = "idle" /\ svloc["operator"].err = "write"
    /\ svloc["operator"].left \in DOMAIN fsNames
    /\ Len(fsData[fsNames[svloc["operator"].left]]) > 0

----------------------------------------------------------------------------
(* Dispatched beads *)

\* SpecDispatched: the race of Spec without forced enqueues and without
\* polecat exits: a dispatched bead stays hooked, so every enqueueBead that is
\* still running after the dispatch of its bead was started before it.
UnforcedCalls == {c \in RaceCalls : ~c[3].Force}

NextDispatched ==
    \/ EnqNext(MaxEnqueues, UnforcedCalls, {"T1"})
    \/ DispNextEarly(MaxCycles, MaxLost)

SpecDispatched == Init /\ [][NextDispatched]_vars

HasBlock(description) == DelimIndex(description) # 0

\* the executor succeeded for b, the dispatcher's cleanup of b is over and no
\* enqueueBead is running
DispatchSettled(b) ==
    /\ spawned[b] >= 1
    /\ lost[b] = <<>>
    /\ \A d \in Dispatchers : dpc[d] \in {"strip", "swap"} => Cur(d).ID # b
    /\ \A e \in Enqueuers : epc[e] = "idle"

\* C16: once a bead is dispatched (executor and cleanup succeeded) and the
\* enqueues that ran concurrently have finished, the bead carries
\* gt:queue-dispatched, does not carry gt:queued, and its description has no
\* metadata block.
C16_DispatchedClean ==
    \A b \in Beads :
        DispatchSettled(b) =>
            /\ LabelDispatched \in labels[b]
            /\ LabelQueued \notin labels[b]
            /\ ~HasBlock(desc[b])

\* C17: a bead that does not carry gt:queued is inert: no step invokes the
\* executor for it and no step of a dispatcher changes its labels or its
\* description, whatever its description holds.
C17_InertStep ==
    \A b \in Beads :
        LabelQueued \notin labels[b] =>
            /\ attempts'[b] = attempts[b]
            /\ spawned'[b] = spawned[b]
            /\ (\E d \in Dispatchers : dpc'[d] # dpc[d] \/ dloc'[d] # dloc[d])
                  => labels'[b] = labels[b] /\ desc'[b] = desc[b]

C17_Inert == [][C17_InertStep]_vars

\* b1 holds a complete metadata block and no gt:queued (the add-label has
\* not happened or was rolled back without effect); the only dispatch cycle,
\* not paused and with capacity, found nothing to dispatch
C17_Witness ==
    /\ HasValidMeta("b1") /\ LabelQueued \notin labels["b1"]
    /\ status["b1"] = "open"
    /\ nCycles = 1 /\ ret = Ret("cli", 0, "") /\ queueFile = <<>>
    /\ attempts["b1"] = 0

----------------------------------------------------------------------------
(* Wake signal *)

\* the idle states the daemon can have written: [Idle, BackoffInterval]
IdleStates ==
    { [Idle |-> FALSE, BackoffInterval |-> 0],
      [Idle |-> TRUE, BackoffInterval |-> 0],
      [Idle |-> TRUE, BackoffInterval |-> 8],
      [Idle |-> TRUE, BackoffInterval |-> 30] }

\* the values of the --max flag of idle-wait, in seconds
IdleWaitMaxes == {10}

\* the daemon writes its idle state
WriteIdleNext(states) ==
    \/ \E st \in states, ok \in BOOLEAN : WriteIdleOpen(st, ok)
    \/ \E ok \in BOOLEAN : WriteIdleWrite(ok)

\* SpecWake: sling signals a wake, the daemon's heartbeat and another caller
\* consume the signal, and the deacon runs idle-wait, while time passes.
InitWake ==
    /\ status = [b \in Beads |-> "open"]
    /\ labels = [b \in Beads |-> {}]
    /\ desc = [b \in Beads |-> UserDesc(b)]
    /\ commits = [b \in Beads |-> 0]
    /\ InitProcesses
    /\ InitPureIdle
    /\ InitNoFile
    /\ idleFile \in {<<>>} \cup {IdleWhole(st) : st \in IdleStates}

NextWake ==
    \/ nSignals < MaxSignals /\ \E ok \in BOOLEAN : SignalWake(ok)
    \/ \E c \in Consumers :
          \/ nConsumes < MaxConsumes /\ ConsumeStat(c)
          \/ \E removed \in BOOLEAN : ConsumeRemove(c, removed)
    \/ \E inTown \in BOOLEAN, m \in IdleWaitMaxes : IdleWaitStart(inTown, m)
    \/ IdleWaitTick
    \/ WriteIdleNext(IdleStates)
    \/ Second

SpecWake == InitWake /\ [][NextWake]_vars

\* a consume that starts with no signal pending returns false
NoSignalStep ==
    (nConsumes' = nConsumes + 1 /\ wakeFile = <<>>)
        => wakeRet'.who \in Consumers /\ wakeRet'.val = FALSE

\* C18: over every interleaving of SignalWake and ConsumeWakeSignal calls,
\* two concurrent consumers included, the consumes that returned true never
\* outnumber the signals, and a consume with no signal pending returns false.
C18_AtMostOncePerSignal ==
    /\ [](nTrue <= nSignals)
    /\ [][NoSignalStep]_vars

\* C19: a wake signal written while idle-wait sleeps on an idle system makes
\* idle-wait return at its next tick, at most 5 seconds later, whatever the
\* daemon's heartbeat does with the signal in between.
C19_WakeWithinTick ==
    (iwpc = "sleeping" /\ signalAt # <<>>) => nowSec - signalAt[1] <= TickSeconds

----------------------------------------------------------------------------
(* Usage limit *)

\* SpecLimit: usage limits are recorded and cleared while the daemon's
\* heartbeat wakes the workers and time passes.
InitLimit ==
    /\ status = [b \in Beads |-> "open"]
    /\ labels = [b \in Beads |-> {}]
    /\ desc = [b \in Beads |-> UserDesc(b)]
    /\ commits = [b \in Beads |-> 0]
    /\ InitProcesses
    /\ InitPureIdle
    /\ InitNoFile
    /\ idleFile = <<>>

NextLimit ==
    \/ nRecords < MaxRecords /\ \E w \in LimitWriters, resetDuration \in {0, 1},
                                    outcome \in SaveOutcomes :
                                    RecordUsageLimit(w, resetDuration, outcome)
    \/ \E w \in LimitWriters, ok, mixed \in BOOLEAN : RecordWrite(w, ok, mixed)
    \/ nClears < MaxClears /\ limitFile # <<>> /\ \E ok \in BOOLEAN : ClearState(ok)
    \/ \E fails \in BOOLEAN : Heartbeat(fails)
    \/ Minute

SpecLimit == InitLimit /\ [][NextLimit]_vars

\* once three attempts are recorded, no heartbeat decides to wake and the
\* state stays active until a clear or a new record
SpentStep ==
    LET st == LoadState(limitFile).st
    IN (st # <<>> /\ st[1].WakeAttempts >= MaxWakeAttempts) =>
          /\ ~ShouldWake(st[1], nowMin)
          /\ wakes' # wakes + 1
          /\ \/ limitFile' = limitFile /\ st[1].Active
             \/ nClears' # nClears
             \/ limWr' # limWr

\* C20: at most 3 wakes are performed for one recorded usage
\* limit; after the third attempt ShouldWake is false on every later
\* heartbeat and the state stays active until it is cleared.
C20_ThreeWakes ==
    /\ [](wakes <= MaxWakeAttempts)
    /\ [][SpentStep]_vars

\* the third wake of the usage limit has recorded the third attempt; five
\* minutes later the cooldown has elapsed, ShouldWake is false for the
\* attempts alone and the state is still active
C20_Witness ==
    /\ wakes = 3
    /\ LoadState(limitFile).st # <<>>
    /\ LoadState(limitFile).st[1].Active
    /\ LoadState(limitFile).st[1].WakeAttempts = 3
    /\ nowMin >= LoadState(limitFile).st[1].LastWakeAttempt[1] + WakeAttemptCooldown
    /\ ~ShouldWake(LoadState(limitFile).st[1], nowMin)

\* the usage-limit states and the times ShouldWake is evaluated on
LimitStates ==
    [Active : BOOLEAN, ResetAt : 0..3, RecordedAt : {0}, WakeAttempts : 0..4,
     LastWakeAttempt : {<<>>} \cup {<<t>> : t \in 0..8}]
LimitTimes == 0..14

\* ShouldWake is the conjunction of its four conditions
ShouldWakeIff ==
    \A st \in LimitStates, now \in LimitTimes :
        ShouldWake(st, now) <=>
            /\ st.Active
            /\ now >= st.ResetAt + WakeBuffer
            /\ st.WakeAttempts < MaxWakeAttempts
            /\ \/ st.LastWakeAttempt = <<>>
               \/ now - st.LastWakeAttempt[1] >= WakeAttemptCooldown

\* a wake of the daemon comes no earlier than reset_at + WakeBuffer of the
\* state it loaded and no earlier than WakeAttemptCooldown after the last one
WakeStep ==
    wakes' = wakes + 1 =>
        /\ LoadState(limitFile).st # <<>>
        /\ nowMin >= LoadState(limitFile).st[1].ResetAt + WakeBuffer
        /\ lastWakeAt # <<>> => nowMin - lastWakeAt[1] >= WakeAttemptCooldown

\* C21: ShouldWake is true exactly when the state is active, now
\* is at least reset_at + 2 min, fewer than 3 attempts are recorded, and the
\* last attempt is zero or at least 5 min old; so no two wakes of a usage
\* limit are less than 5 minutes apart and none comes before reset_at + 2 min.
C21_WakesApart ==
    /\ [](ShouldWakeIff)
    /\ [][WakeStep]_vars

\* the second wake of a usage limit is made exactly when the cooldown of the
\* first, which was made at reset_at + 2 min, has elapsed
C21_Witness ==
    /\ wakes = 2
    /\ LoadState(limitFile).st # <<>>
    /\ LoadState(limitFile).st[1].LastWakeAttempt = <<nowMin>>
    /\ LoadState(limitFile).st[1].WakeAttempts = 2
    /\ nowMin = LoadState(limitFile).st[1].ResetAt + WakeBuffer + WakeAttemptCooldown

----------------------------------------------------------------------------
(* Dispatch count *)

\* the least element of a non-empty set of integers
Least(S) == CHOOSE x \in S : \A y \in S : x <= y

\* the range computeDispatchCount is checked on
CountRange == (0 - 2)..4

\* computeDispatchCount is the minimum of batchSize, readyCount and, when it
\* is positive, capacity
DispatchCountIsMin ==
    \A capacity \in CountRange, batchSize \in CountRange, readyCount \in CountRange :
        computeDispatchCount(capacity, batchSize, readyCount) =
            IF capacity > 0 THEN Least({batchSize, readyCount, capacity})
            ELSE Least({batchSize, readyCount})

\* the loop of a cycle is at one of the first toDispatch beads of its ready
\* set, toDispatch being the count computed from its capacity, batch size and
\* ready set; it leaves the loop when it is past the last of them
LoopWithinCount ==
    \A d \in Dispatchers :
        dpc[d] \in {"loop", "recordDesc", "recordLabel", "strip", "swap", "post"} =>
            /\ dloc[d].toDispatch =
                   computeDispatchCount(dloc[d].capacity, dloc[d].batchSize,
                                        Len(dloc[d].ready))
            /\ IF dpc[d] = "post" THEN dloc[d].i = dloc[d].toDispatch + 1
               ELSE dloc[d].i \in 1..dloc[d].toDispatch

\* every iteration takes the next bead of the ready set, in order
LoopStep ==
    \A d \in Dispatchers :
        (dpc[d] \in {"loop", "recordDesc", "recordLabel", "strip", "swap"}
         /\ dloc'[d].i # dloc[d].i)
            => /\ dloc'[d].i = dloc[d].i + 1
               /\ dloc'[d].ready = dloc[d].ready
               /\ dloc'[d].toDispatch = dloc[d].toDispatch

\* C22: computeDispatchCount(capacity, batchSize, readyCount) is
\* min(batchSize, readyCount, capacity) when capacity > 0 and
\* min(batchSize, readyCount) otherwise, and the dispatch loop attempts
\* exactly that many beads, the first ones of the ready set.
C22_DispatchCount ==
    /\ [](DispatchCountIsMin /\ LoopWithinCount)
    /\ [][LoopStep]_vars

\* a cycle with three ready beads has left its loop after the first two
C22_Witness ==
    \E d \in Dispatchers :
        /\ dpc[d] = "post"
        /\ Len(dloc[d].ready) = 3 /\ dloc[d].toDispatch = 2 /\ dloc[d].i = 3

----------------------------------------------------------------------------
(* The metadata codec on its own *)

\* the metadata records the codec is applied to: plain values, a value with
\* a space before or after it, an error text with a colon, one with a line
\* break
MetaInputs ==
    {[ZeroMeta EXCEPT !.TargetRig = rig, !.Vars = vs, !.NoMerge = nm,
                      !.DispatchFailures = n, !.LastFailure = lf] :
        rig \in {"", "r1", " r1"}, vs \in {"", "a=1", "a=1\nb=2", "  a=1  "},
        nm \in BOOLEAN,
        n \in {ToInt64(k) : k \in {-1, 0, 1, 2, 10, 123456789}}
                \cup {Int64(FALSE, MagOfDigits(MaxInt64Digits))},
        lf \in {"", "sling failed: rig not found", "boom ",
                "exit 1\ntarget_rig: r2"}}

\* the descriptions StripQueueMetadata is applied to: no block, one block,
\* a delimiter in the user's text before the block (on a line of its own,
\* inside a line)
DescInputs ==
    {<<>>, <<Text("fix the bug")>>, <<Text("fix the bug"), Text("")>>}
    \cup {u \o b : u \in {<<>>, <<Text("fix the bug")>>,
                          <<Text("fix the bug"), Text(""), Text("")>>,
                          <<Text("notes"), DelimLine, Text("more")>>,
                          <<Text("User wrote ---gt:queue:v1--- as text")>>},
                   b \in {FormatQueueMetadata(NewQueueMetadata("r1", "T1")),
                          FormatQueueMetadata(
                              [NewQueueMetadata("r2", "T2")
                                  EXCEPT !.DispatchFailures = ToInt64(1),
                                         !.LastFailure = SlingError])}}

CodecFrame == UNCHANGED <<queueVars, opVars, saveVars, wakeVars, limitVars,
                          batchVars, detectVars, backoffCur, nBackoffs>>

\* FormatQueueMetadata(m)
CodecFormat ==
    /\ codecPc = "start"
    /\ codecDesc' = FormatQueueMetadata(codecMeta)
    /\ codecPc' = "formatted"
    /\ UNCHANGED <<codecMeta, codecOut>>
    /\ CodecFrame

\* ParseQueueMetadata of the formatted block
CodecParse ==
    /\ codecPc = "formatted"
    /\ codecOut' = ParseQueueMetadata(codecDesc)
    /\ codecPc' = "parsed"
    /\ UNCHANGED <<codecMeta, codecDesc>>
    /\ CodecFrame

\* StripQueueMetadata(description), and again on its result
CodecStrip ==
    /\ codecPc \in {"given", "stripped"}
    /\ codecDesc' = StripQueueMetadata(codecDesc)
    /\ codecPc' = IF codecPc = "given" THEN "stripped" ELSE "restripped"
    /\ UNCHANGED <<codecMeta, codecOut>>
    /\ CodecFrame

\* the description rebuilt from the stripped one and a new block, as
\* enqueueBead and recordDispatchFailure do
CodecRebuild ==
    /\ codecPc = "stripped"
    /\ codecDesc' = AppendBlock(codecDesc, FormatQueueMetadata(codecMeta))
    /\ codecPc' = "rebuilt"
    /\ UNCHANGED <<codecMeta, codecOut>>
    /\ CodecFrame

InitCodec ==
    /\ status = [b \in Beads |-> "open"]
    /\ labels = [b \in Beads |-> {}]
    /\ desc = [b \in Beads |-> UserDesc(b)]
    /\ commits = [b \in Beads |-> 0]
    /\ InitProcesses
    /\ InitNoFile
    /\ idleFile = <<>>
    /\ \/ /\ codecPc = "start"
          /\ codecMeta \in MetaInputs
          /\ codecDesc = <<>>
       \/ /\ codecPc = "given"
          /\ codecMeta \in {NewQueueMetadata("r1", "T3")}
          /\ codecDesc \in DescInputs
    /\ codecOut = <<>>
    /\ backoffCur = 0
    /\ nBackoffs = 0
    /\ InitNoTranscript

NextCodec ==
    \/ CodecFormat
    \/ CodecParse
    \/ CodecStrip
    \/ CodecRebuild

SpecCodec == InitCodec /\ [][NextCodec]_vars

\* C23: for every QueueMetadata record M built from the recognized fields,
\* ParseQueueMetadata(FormatQueueMetadata(M)) equals M field by field, also
\* for values with colons, line breaks or surrounding spaces.
C23_RoundTrip ==
    codecPc = "parsed" => codecOut = <<codecMeta>>

\* the round trip of a record whose values are single lines without
\* surrounding spaces, one of them with a colon
C23_Witness ==
    /\ codecPc = "parsed"
    /\ codecMeta.LastFailure = "sling failed: rig not found"
    /\ codecMeta.Vars = "a=1\nb=2"
    /\ codecMeta.TargetRig = "r1"
    /\ codecOut = <<codecMeta>>

\* the number of times sub occurs in s
RECURSIVE Occurrences(_, _)
Occurrences(s, sub) ==
    IF Index(s, sub) = 0 THEN 0
    ELSE 1 + Occurrences(SubSeq(s, Index(s, sub) + Len(sub), Len(s)), sub)

\* the number of delimiters in a description
RECURSIVE Delimiters(_)
Delimiters(description) ==
    IF description = <<>> THEN 0
    ELSE Occurrences(Head(description), queueMetadataDelimiter)
         + Delimiters(Tail(description))

\* n line breaks
RECURSIVE Newlines(_)
Newlines(n) == IF n = 0 THEN "" ELSE "\n" \o Newlines(n - 1)

\* what StripQueueMetadata returns has no delimiter, is its argument when
\* that had none (the text before the first delimiter without the line breaks
\* at its end otherwise), and is returned as it is when stripped again
StripStep ==
    /\ (codecPc = "given" /\ codecPc' = "stripped") =>
          /\ Delimiters(codecDesc') = 0
          /\ Delimiters(codecDesc) = 0 => codecDesc' = codecDesc
          /\ Delimiters(codecDesc) > 0 =>
                \E n \in 0..Len(codecDesc) :
                    JoinLines(BeforeDelim(codecDesc)) =
                        JoinLines(codecDesc') \o Newlines(n)
    /\ (codecPc = "stripped" /\ codecPc' = "restripped") =>
          codecDesc' = codecDesc

\* C24: Strip(Strip(d)) = Strip(d), Strip(d) contains no delimiter, and
\* Strip(d) = d when d has no delimiter, so a description rebuilt as
\* Strip(d) + newline + Format(M) has exactly one metadata block.
C24_StripIdempotent ==
    /\ [][StripStep]_vars
    /\ [](codecPc = "rebuilt" => Delimiters(codecDesc) = 1)

\* a description with a delimiter in the user's text and a block after it
\* was stripped and rebuilt
C24_Witness ==
    /\ codecPc = "rebuilt"
    /\ codecDesc = <<Text("notes")>> \o FormatQueueMetadata(NewQueueMetadata("r1", "T3"))

----------------------------------------------------------------------------
(* The deacon's backoff (nextBackoffInterval) *)

\* a time.Duration is an int64 count of nanoseconds: here the four 16-bit
\* limbs of its two's complement, the most significant first
Limb == 65536
LiveCycles == 9       \* SpecLive: dispatch cycles of the daemon
LiveStart == 3        \* SpecIdleWait: latest second at which idle-wait starts
MaxBackoffs == 7            \* nextBackoffInterval calls in a row
MaxBackoffSeconds == 320    \* the whole seconds the backoff is started from

\* d * k modulo 2^64, for 0 <= k < 2^15
MulSmall(d, k) ==
    LET p4 == d[4] * k
        p3 == d[3] * k + p4 \div Limb
        p2 == d[2] * k + p3 \div Limb
        p1 == d[1] * k + p2 \div Limb
    IN <<p1 % Limb, p2 % Limb, p3 % Limb, p4 % Limb>>

\* time.Second is 1000000000 ns = 15258 * 2^16 + 51712
OneSecond == <<0, 0, 15258, 51712>>
Seconds(n) == MulSmall(OneSecond, n)
minBackoff == Seconds(30)
maxBackoff == Seconds(300)
\* math.MaxInt64 ns, and 2^62 ns
MaxDuration == <<32767, 65535, 65535, 65535>>
HalfRange == <<16384, 0, 0, 0>>

IsNegative(d) == d[1] >= Limb \div 2

\* a < b as unsigned 64-bit numbers
RECURSIVE LessLimbs(_, _)
LessLimbs(a, b) ==
    IF a = <<>> THEN FALSE
    ELSE IF Head(a) # Head(b) THEN Head(a) < Head(b)
    ELSE LessLimbs(Tail(a), Tail(b))

\* a < b as int64
Less(a, b) ==
    IF IsNegative(a) # IsNegative(b) THEN IsNegative(a) ELSE LessLimbs(a, b)

nextBackoffInterval(current) ==
    IF Less(current, minBackoff) THEN minBackoff
    ELSE LET next == MulSmall(current, 2)
         IN IF Less(maxBackoff, next) THEN maxBackoff ELSE next

\* the durations nextBackoffInterval is started from
BackoffInputs ==
    {Seconds(n) : n \in 0..MaxBackoffSeconds}
    \cup {Seconds(600), HalfRange, MaxDuration, MulSmall(MaxDuration, 2)}

BackoffNext ==
    /\ nBackoffs < MaxBackoffs
    /\ backoffCur' = nextBackoffInterval(backoffCur)
    /\ nBackoffs' = nBackoffs + 1
    /\ UNCHANGED <<queueVars, opVars, saveVars, wakeVars, limitVars, batchVars,
                   detectVars, codecPc, codecMeta, codecDesc, codecOut>>

InitBackoff ==
    /\ status = [b \in Beads |-> "open"]
    /\ labels = [b \in Beads |-> {}]
    /\ desc = [b \in Beads |-> UserDesc(b)]
    /\ commits = [b \in Beads |-> 0]
    /\ InitProcesses
    /\ InitNoFile
    /\ idleFile = <<>>
    /\ codecPc = "idle"
    /\ codecMeta = ZeroMeta
    /\ codecDesc = <<>>
    /\ codecOut = <<>>
    /\ backoffCur \in BackoffInputs
    /\ nBackoffs = 0
    /\ InitNoTranscript

NextBackoff == BackoffNext

SpecBackoff == InitBackoff /\ [][NextBackoff]_vars

\* 30s when c < 30s and min(2c, 5min) otherwise, 2c being the double of c as
\* an integer: 2c when c < 150s, 5min from there on
ExpectedBackoff(c) ==
    IF Less(c, minBackoff) THEN minBackoff
    ELSE IF Less(c, Seconds(150)) THEN MulSmall(c, 2)
    ELSE maxBackoff

\* nextBackoffInterval applied n times to 0
RECURSIVE BackoffFromZero(_)
BackoffFromZero(n) ==
    IF n = 0 THEN Seconds(0) ELSE nextBackoffInterval(BackoffFromZero(n - 1))

\* from 0 the sequence is 30s, 60s, 120s, 240s, 300s, 300s, ...
SequenceFromZero ==
    \A n \in 1..MaxBackoffs :
        BackoffFromZero(n) =
            Seconds(IF n < 5 THEN <<30, 60, 120, 240>>[n] ELSE 300)

\* what a call returns is the stated value and lies in [30s, 5min]
BackoffStep ==
    nBackoffs' = nBackoffs + 1 =>
        /\ backoffCur' = ExpectedBackoff(backoffCur)
        /\ ~Less(backoffCur', minBackoff)
        /\ ~Less(maxBackoff, backoffCur')

\* C25: nextBackoffInterval(c) is 30s when c < 30s and min(2c, 5min)
\* otherwise, for every duration c; applied repeatedly from 0 it yields 30s,
\* 60s, 120s, 240s, 300s, 300s, ...; every result lies in [30s, 5min].
C25_Backoff ==
    /\ [](SequenceFromZero)
    /\ [][BackoffStep]_vars


----------------------------------------------------------------------------
(* queue.enabled = false *)

\* SpecDisabled: the dispatch cycles of SpecBatch with queue.enabled = false
\* in the town settings
NextDisabled ==
    \/ \E d \in Dispatchers :
          \/ nCycles < BatchCycles /\ \E dryRun, lockErr \in BOOLEAN : DispStart(d, dryRun, lockErr)
          \/ \E fails \in BOOLEAN : DispLoad(d, fails)
          \/ \E loaded \in BOOLEAN, cm \in ConfigMaxPolecats, mo \in MaxPolOverrides,
                cb \in ConfigBatchSizes, bo \in BatchOverrides :
                DispLimits(d, loaded, FALSE, cm, mo, cb, bo)
          \/ DispBody(d, MaxLost)
    \/ EnvNext

SpecDisabled == InitBatch /\ [][NextDisabled]_vars

\* the invocation with GT_DAEMON=1 that has loaded the settings, unless it is
\* a dry run, returns (0, nil) from the check of queue.enabled and changes
\* nothing
DaemonGatedStep ==
    \A d \in Dispatchers :
        (/\ d = "daemon" /\ dpc[d] = "limits" /\ ~dloc[d].dryRun
         /\ dpc'[d] # "limits"
         /\ ret' # Ret(d, 0, "loading town settings"))
            => /\ dpc'[d] = "idle"
               /\ ret' = Ret(d, 0, "")
               /\ UNCHANGED <<store, activePolecats, queueFile, spawned, attempts>>

\* so it never has a ready set, and no executor runs for it
DaemonGated ==
    \A d \in Dispatchers :
        (d = "daemon" /\ ~dloc[d].dryRun) =>
            /\ dpc[d] \in {"idle", "load", "limits"}
            /\ dloc[d].execs = 0

\* an invocation that is not the daemon's goes on as one with
\* queue.enabled = true does
ManualStep ==
    \A d \in Dispatchers :
        (/\ d # "daemon" /\ dpc[d] = "limits" /\ dpc'[d] # "limits"
         /\ ret' # Ret(d, 0, "loading town settings"))
            => \E cm \in ConfigMaxPolecats, mo \in MaxPolOverrides,
                  cb \in ConfigBatchSizes, bo \in BatchOverrides :
                  DispLimits(d, TRUE, TRUE, cm, mo, cb, bo)

\* C26: with queue.enabled = false a non-dry-run invocation with GT_DAEMON=1
\* returns 0 without querying the ready set or invoking the executor, and an
\* invocation without GT_DAEMON=1 dispatches as it does with enabled = true.
C26_EnabledGate ==
    /\ [](DaemonGated)
    /\ [][DaemonGatedStep /\ ManualStep]_vars

\* with queue.enabled = false the daemon has returned 0 after a manual
\* invocation dispatched two beads
C26_Witness ==
    /\ ret = Ret("daemon", 0, "")
    /\ \E b \in Beads : spawned[b] = 1
    /\ activePolecats = 2
    /\ nCycles >= 2

----------------------------------------------------------------------------
(* Dry runs *)

\* a step of a dispatchQueuedWork invocation with dryRun = true: it goes no
\* further than the query, returns 0, and leaves the beads, the state file
\* and the polecats alone
DryDispatchStep ==
    \A d \in Dispatchers :
        ((dloc[d].dryRun \/ dloc'[d].dryRun) /\ dpc'[d] # dpc[d])
            => /\ dpc'[d] \in {"idle", "load", "limits", "query"}
               /\ dpc'[d] = "idle" => (ret'.who = d /\ ret'.n = 0)
               /\ UNCHANGED <<store, queueFile, activePolecats, spawned, attempts>>

\* an enqueueBead call with DryRun = true returns at once and leaves the
\* description, the labels and the convoys alone
DryEnqueueStep ==
    \A e \in Enqueuers :
        (epc[e] = "idle" /\ nEnq' = nEnq + 1 /\ ret'.who = e
         /\ ret'.call # NoCall /\ ret'.call[1].opts.DryRun)
            => /\ epc'[e] = "idle"
               /\ UNCHANGED <<store, commits, lost>>

\* C27: dispatchQueuedWork with dryRun = true returns 0, never invokes the
\* executor and changes no label, description or queue-state.json;
\* enqueueBead with DryRun = true writes no description, adds no label and
\* creates no convoy.
C27_DryRun == [][DryDispatchStep /\ DryEnqueueStep]_vars

\* a dry-run enqueue of the open, unqueued bead b1 has returned nil while a
\* dry-run dispatch cycle is at its query
C27_Witness ==
    /\ ret.call # NoCall /\ ret.call[1].opts.DryRun /\ ret.err = ""
    /\ status["b1"] = "open" /\ LabelQueued \notin labels["b1"]
    /\ \E d \in Dispatchers : dpc[d] = "query" /\ dloc[d].dryRun

----------------------------------------------------------------------------
(* A town without state files *)

\* IsSystemIdle: ReadIdleState, then state != nil && state.Idle
IsSystemIdle(file) ==
    LET state == ReadIdleState(file) IN state # <<>> /\ state[1].Idle

\* SpecFresh: a town in which queue-state.json, idle-state.json and the
\* usage-limit state file were never written and no bead is queued; dispatch
\* cycles, loads of the queue state, gt deacon idle-wait and the usage-limit
\* heartbeat run in it
NextFresh ==
    \/ \E d \in Dispatchers :
          \/ nCycles < MaxCycles /\ \E dryRun, lockErr \in BOOLEAN : DispStart(d, dryRun, lockErr)
          \/ \E fails \in BOOLEAN : DispLoad(d, fails)
          \/ \E loaded, enabled \in BOOLEAN, cm \in ConfigMaxPolecats, mo \in MaxPolOverrides,
                cb \in ConfigBatchSizes, bo \in BatchOverrides :
                DispLimits(d, loaded, enabled, cm, mo, cb, bo)
          \/ \E fails \in BOOLEAN : DispQuery(d, fails)
    \/ \E r \in Readers : nReads < MaxReads /\ ReadOpen(r, FALSE)
    \/ \E inTown \in BOOLEAN, m \in IdleWaitMaxes : IdleWaitStart(inTown, m)
    \/ Heartbeat(FALSE)

SpecFresh == Init /\ [][NextFresh]_vars

\* what the loads return when their file is missing
MissingIsZero ==
    /\ queueFile = <<>> =>
          /\ LoadQueueState(queueFile).Paused = FALSE
          /\ LoadQueueState(queueFile).LastDispatchAt = ""
          /\ LoadQueueState(queueFile).LastDispatchCount = ToInt64(0)
    /\ \A r \in Readers :
          (rdpc[r] = "done" /\ ~rdloc[r].found) =>
              /\ rdloc[r].state = ZeroState
              /\ rdloc[r].err = ""
    /\ idleFile = <<>> =>
          /\ ReadIdleState(idleFile) = <<>>
          /\ ~IsSystemIdle(idleFile)
    /\ limitFile = <<>> => LoadState(limitFile) = [st |-> <<>>, err |-> ""]

\* with the files missing a dispatch cycle goes on past the check of the
\* pause, a load of the queue state ends without the file, idle-wait takes
\* the system as active and the heartbeat wakes nobody
MissingStep ==
    /\ \A d \in Dispatchers :
          (queueFile = <<>> /\ dpc[d] = "load" /\ dpc'[d] # "load")
              => dpc'[d] = "limits"
    /\ \A r \in Readers :
          (TargetView = <<>> /\ nReads' = nReads + 1)
              => rdpc'[r] \in {"idle", "done"}
    /\ (idleFile = <<>> /\ iwpc = "idle" /\ iwpc' # "idle") => iwpc' = "returned"
    /\ limitFile = <<>> => wakes' = wakes

\* C28: a missing state file is the zero-valued state, not an error:
\* LoadQueueState returns paused = false with empty last-dispatch fields and
\* no error, so dispatch goes on as not paused; ReadIdleState returns nil and
\* IsSystemIdle false; LoadState returns nil with no error.
C28_MissingIsZero ==
    /\ [](MissingIsZero)
    /\ [][MissingStep]_vars

\* without any state file a dispatch cycle is past the check of the pause, a
\* load of the queue state has ended and idle-wait has returned
C28_Witness ==
    /\ queueFile = <<>> /\ TargetView = <<>> /\ idleFile = <<>> /\ limitFile = <<>>
    /\ \E d \in Dispatchers : dpc[d] = "limits"
    /\ \E r \in Readers : rdpc[r] = "done" /\ rdloc[r].state.Paused = FALSE
    /\ iwpc = "returned"

----------------------------------------------------------------------------
(* Beads labelled gt:queued without usable metadata *)

\* SpecQuarantine: the dispatch cycles of SpecBatch over a queue in which b1
\* was enqueued to r1, the block of b2 has no target_rig and b3 was labelled
\* gt:queued by hand and has no metadata block
InitQuarantine ==
    /\ status = [b \in Beads |-> "open"]
    /\ labels = [b \in Beads |-> {LabelQueued}]
    /\ desc = [b \in Beads |->
                 IF b = "b1" THEN EnqueuedDesc(b, "r1")
                 ELSE IF b = "b2" THEN EnqueuedDesc(b, "")
                 ELSE UserDesc(b)]
    /\ commits = [b \in Beads |-> IF b = "b1" THEN 1 ELSE 0]
    /\ InitProcesses
    /\ InitPureIdle
    /\ InitNoFile
    /\ idleFile = <<>>

NextQuarantine ==
    \/ DispNext(BatchCycles, ConfigMaxPolecats, MaxPolOverrides, BatchOverrides, MaxLost)
    \/ EnvNext

SpecQuarantine == InitQuarantine /\ [][NextQuarantine]_vars

\* the bead of the iteration has no metadata block or an empty target_rig
Unusable(b) ==
    \/ ParseQueueMetadata(b.Description) = <<>>
    \/ ParseQueueMetadata(b.Description)[1].TargetRig = ""

\* the iteration of the loop on such a bead: the label swap to
\* gt:dispatch-failed, no executor, no write of the description, nothing
\* counted, and on to the next bead
UnusableAnyStep ==
    \A d \in Dispatchers :
        (dpc[d] = "loop" /\ dloc'[d] # dloc[d] /\ Unusable(Cur(d))) =>
            labels' = [labels EXCEPT ![Cur(d).ID] =
                          (@ \cup {LabelDispatchFailed}) \ {LabelQueued}]

\* C29 as stated: every such iteration swaps the labels
C29_UnusableAlways == [][UnusableAnyStep]_vars

UnusableStep ==
    \A d \in Dispatchers :
        (dpc[d] = "loop" /\ dloc'[d] # dloc[d] /\ Unusable(Cur(d))) =>
            /\ labels' = IF lost' = lost
                         THEN [labels EXCEPT ![Cur(d).ID] =
                                  (@ \cup {LabelDispatchFailed}) \ {LabelQueued}]
                         ELSE labels
            /\ lost' # lost => lost' = Lose(Cur(d).ID, "quarantine")
            /\ UNCHANGED <<status, desc, activePolecats, spawned, attempts>>
            /\ dloc'[d].execs = dloc[d].execs
            /\ dloc'[d].dispatched = dloc[d].dispatched
            /\ dloc'[d].i = dloc[d].i + 1
            /\ dpc'[d] = IF dloc[d].i < dloc[d].toDispatch THEN "loop" ELSE "post"

\* C29 (amended): a ready bead with no parseable metadata block or an empty
\* target_rig gets gt:dispatch-failed and loses gt:queued when the bd update
\* goes through and keeps its labels when it fails; either way the executor
\* is not invoked, the description is not changed, the bead is not counted as
\* dispatched and the loop continues with the next bead.
C29_Unusable == [][UnusableStep]_vars

\* b2, whose block has no target_rig, was quarantined as the first bead of a
\* cycle, which is now at its second bead
C29_Witness ==
    \E d \in Dispatchers :
        /\ dpc[d] = "loop" /\ dloc[d].i = 2 /\ dloc[d].dispatched = 0
        /\ dloc[d].ready[1].ID = "b2"
        /\ labels["b2"] = {LabelDispatchFailed}
        /\ desc["b2"] = EnqueuedDesc("b2", "")
        /\ attempts["b2"] = 0

----------------------------------------------------------------------------
(* The ready set over several directories *)

AllDirs == {BeadDirs[j] : j \in 1..Len(BeadDirs)}

\* the beads bd ready lists in a directory, less those the circuit breaker
\* skips
ReadyIn(dir) ==
    {b \in {DirListing(dir)[j] : j \in 1..Len(DirListing(dir))} :
        /\ BdReady(b)
        /\ \/ ParseQueueMetadata(desc[b]) = <<>>
           \/ ~Int64Geq(ParseQueueMetadata(desc[b])[1].DispatchFailures, maxDispatchFailures)}

\* the lists of an invocation never name a bead twice
ReadyOnce ==
    \A d \in Dispatchers : NoRepeat(dloc[d].result) /\ NoRepeat(dloc[d].ready)

\* one directory of the scan: a directory that fails adds nothing and is
\* counted, one that succeeds adds its ready beads; after the last one the
\* query returns the error when every directory failed, and otherwise the
\* collected beads with no error
QueryStep ==
    \A d \in Dispatchers :
        (dpc[d] = "query" /\ <<dpc[d], dloc[d]>>' # <<dpc[d], dloc[d]>>) =>
            /\ UNCHANGED <<store, queueFile, activePolecats, spawned, attempts>>
            /\ \E failsHere \in BOOLEAN :
                  LET dir == BeadDirs[dloc[d].dir]
                      ids == IDsOf(dloc[d].result)
                                \cup (IF failsHere THEN {} ELSE ReadyIn(dir))
                      failCount == dloc[d].failCount + (IF failsHere THEN 1 ELSE 0)
                  IN IF dloc[d].dir < Len(BeadDirs)
                     THEN /\ dpc'[d] = "query"
                          /\ dloc'[d].dir = dloc[d].dir + 1
                          /\ dloc'[d].failCount = failCount
                          /\ IDsOf(dloc'[d].result) = ids
                     ELSE IF failCount = Len(BeadDirs)
                     THEN /\ ret' = Ret(d, 0, "querying ready beads")
                          /\ dpc'[d] = "idle"
                     ELSE /\ ret'.err = ""
                          /\ dpc'[d] = "idle" =>
                                /\ ret' = Ret(d, 0, "")
                                /\ ids = {} \/ dloc[d].dryRun
                          /\ dpc'[d] # "idle" =>
                                /\ dpc'[d] \in {"loop", "post"}
                                /\ IDsOf(dloc'[d].ready) = ids

\* C30: getReadyQueuedBeads returns each ready bead ID at most once across
\* the scanned directories; when some but not all directories fail it
\* returns the beads of the others with no error; when every directory fails
\* it returns an error, and the cycle returns it and dispatches nothing.
C30_ReadySet ==
    /\ [](ReadyOnce)
    /\ [][QueryStep]_vars

\* the rig's directory failed: the cycle has b1, listed by the town's, as its
\* ready set while b2 is ready too
C30_Witness ==
    \E d \in Dispatchers :
        /\ dpc[d] = "loop"
        /\ Len(dloc[d].ready) = 1 /\ dloc[d].ready[1].ID = "b1"
        /\ BdReady("b2")

----------------------------------------------------------------------------
(* The circuit breaker in the ready set *)

\* a block whose dispatch_failures line reads v
CounterDesc(b, rigName, v) ==
    EnqueuedDesc(b, rigName) \o <<Line("dispatch_failures", v)>>

\* SpecBreaker: dispatch cycles over a queue in which b1 has failed three
\* times and still carries gt:queued (the label swap of the third failure did
\* not go through), the dispatch_failures of b2 is not a number, and b3 has
\* failed twice
InitBreaker ==
    /\ status = [b \in Beads |-> "open"]
    /\ labels = [b \in Beads |-> {LabelQueued}]
    /\ desc = [b \in Beads |->
                 IF b = "b1" THEN CounterDesc(b, "r1", "3")
                 ELSE IF b = "b2" THEN CounterDesc(b, "r2", "many")
                 ELSE CounterDesc(b, "r2", "2")]
    /\ commits = [b \in Beads |-> 1]
    /\ InitProcesses
    /\ InitPureIdle
    /\ InitNoFile
    /\ idleFile = <<>>

NextBreaker ==
    \/ DispNext(BatchCycles, {2}, {0}, BatchOverrides, MaxLost)
    \/ EnvNext

SpecBreaker == InitBreaker /\ [][NextBreaker]_vars

\* of the beads bd ready lists in a directory, the ready set has those whose
\* stored counter is below 3
BreakerFilter ==
    \A j \in 1..Len(BeadDirs) :
        LET r == getReadyQueuedBeadsFrom(BeadDirs[j])
            listed == {DirListing(BeadDirs[j])[k] : k \in 1..Len(DirListing(BeadDirs[j]))}
        IN {r[k].ID : k \in 1..Len(r)} = {b \in listed : BdReady(b) /\ Counter(b) < 3}

\* the executor runs only for beads whose stored counter is below 3
BreakerStep ==
    \A b \in Beads : attempts'[b] # attempts[b] => Counter(b) < 3

\* C31: a ready bead is left out of the ready set if and only if its
\* metadata parses with dispatch_failures >= 3, a value that is not an
\* integer counting as 0; the executor is never invoked for a bead whose
\* stored counter is >= 3, even if it still carries gt:queued.
C31_BreakerFilter ==
    /\ [](BreakerFilter)
    /\ [][BreakerStep]_vars

\* the executor has run for b2, whose counter is not a number, while b1, with
\* counter 3, is still open and gt:queued and was never tried
C31_Witness ==
    /\ attempts["b2"] = 1 /\ attempts["b1"] = 0
    /\ BdReady("b1") /\ Counter("b1") = 3
    /\ \E d \in Dispatchers : dpc[d] \in {"strip", "recordDesc"} /\ Cur(d).ID = "b2"

----------------------------------------------------------------------------
(* The dispatch record in queue-state.json *)

\* the times the dispatcher's clock shows at RecordDispatch
DispatchTimes == {"T1"}

\* dispatcher d ends a cycle whose loop has run
LoopCycleEnds(d) == dpc[d] \in {"post", "save"} /\ dpc'[d] = "idle"

\* the file after the step records the returned count and a fresh time
RecordsReturned ==
    /\ queueFile' # <<>>
    /\ queueFile'[1].LastDispatchCount = ToInt64(ret'.n)
    /\ queueFile'[1].LastDispatchAt \in DispatchTimes

C32_EveryLoopStep ==
    \A d \in Dispatchers : LoopCycleEnds(d) => RecordsReturned

\* the statement for every cycle that ran the loop: refuted by a cycle whose
\* executor calls all failed, which returns 0 and writes nothing
C32_EveryLoopCycle == [][C32_EveryLoopStep]_vars

C32_RecordStep ==
    \A d \in Dispatchers :
        LoopCycleEnds(d) =>
            IF dloc[d].dispatched > 0
            THEN /\ ret'.n = dloc[d].dispatched /\ ret'.err = ""
                 /\ IF lost' = lost
                    THEN /\ dpc[d] = "save"
                         /\ RecordsReturned
                         /\ queueFile'[1].Paused = dloc[d].fresh.Paused
                         /\ queueFile'[1].PausedBy = dloc[d].fresh.PausedBy
                         /\ queueFile'[1].PausedAt = dloc[d].fresh.PausedAt
                    ELSE /\ queueFile' = queueFile
                         /\ lost' = Lose(StateFile,
                                         IF dpc[d] = "post" THEN "reload" ELSE "save")
            ELSE /\ dpc[d] = "post"
                 /\ ret'.n = 0
                 /\ queueFile' = queueFile

\* C32 (amended): a non-dry-run cycle that dispatched at least one bead and
\* whose reload and save of queue-state.json succeed ends with the file
\* recording last_dispatch_count equal to the returned count and a fresh
\* last_dispatch_at, paused, paused_by and paused_at being those of the state
\* read after the loop; when the reload or the save fails the count is
\* returned and the file is left as it is, as it is by a cycle whose loop
\* dispatched nothing, which returns 0.
C32_DispatchRecorded == [][C32_RecordStep]_vars

\* the cli cycle dispatched one bead and saved its record on top of a pause
\* the operator had written during the loop
C32_Witness ==
    /\ ret = Ret("cli", 1, "")
    /\ queueFile # <<>>
    /\ queueFile[1].LastDispatchCount = ToInt64(1)
    /\ queueFile[1].LastDispatchAt = "T1"
    /\ queueFile[1].Paused /\ queueFile[1].PausedBy = "operator"

----------------------------------------------------------------------------
(* The sleep duration of idle-wait *)

\* the backoff intervals an idle state file can hold, in seconds
SleepBackoffs == {-5, 0, 1, 8, 29, 30, 31, 300, 301}

\* the values of --max: below 30 s, 30 s, and the default of 5 minutes
SleepMaxes == {10, 30, 300}

\* SpecSleep: idle-wait on an idle state drawn from the inputs, while time
\* passes and no wake signal is written
InitSleep ==
    /\ status = [b \in Beads |-> "open"]
    /\ labels = [b \in Beads |-> {}]
    /\ desc = [b \in Beads |-> UserDesc(b)]
    /\ commits = [b \in Beads |-> 0]
    /\ InitProcesses
    /\ InitPureIdle
    /\ InitNoFile
    /\ idleFile \in {<<>>} \cup
          {IdleWhole([Idle |-> i, BackoffInterval |-> n]) :
              i \in BOOLEAN, n \in SleepBackoffs}

NextSleep ==
    \/ \E inTown \in BOOLEAN, m \in SleepMaxes : IdleWaitStart(inTown, m)
    \/ IdleWaitTick
    \/ WriteIdleNext(IdleStates)
    \/ Second

SpecSleep == InitSleep /\ [][NextSleep]_vars

\* idle-wait has found its town root, read the idle state and is past its
\* decision
IdleWaitStarted == iwpc = "idle" /\ iwpc' # "idle" /\ iwloc'.err = ""

\* the statement with the lower bound for every BackoffInterval: refuted by
\* an interval of 8 s under --max 5m, which sleeps 8 s
C33_ClampedStep ==
    IdleWaitStarted =>
        IF IsSystemIdle(idleFile)
        THEN /\ iwpc' = "sleeping"
             /\ iwloc'.sleepDuration <= iwloc'.idleWaitMax
             /\ iwloc'.idleWaitMax >= 30 => iwloc'.sleepDuration >= 30
        ELSE iwpc' = "returned"

C33_ClampedToThirty == [][C33_ClampedStep]_vars

C33_SleepStep ==
    IdleWaitStarted =>
        IF IsSystemIdle(idleFile)
        THEN LET n == ReadIdleState(idleFile)[1].BackoffInterval
                 m == iwloc'.idleWaitMax
                 s == iwloc'.sleepDuration
             IN /\ iwpc' = "sleeping"
                /\ iwloc'.deadline = nowSec + s
                /\ s <= m
                /\ n <= 0 => s = (IF m < 30 THEN m ELSE 30)
                /\ (n > 0 /\ n <= m) => s = n
                /\ n > m => s = m
                /\ (m >= 30 /\ (n <= 0 \/ n >= 30)) => s >= 30
        ELSE iwpc' = "returned" /\ iwloc' = IWIdle

\* C33: when the idle state says idle, idle-wait sleeps BackoffInterval
\* capped by --max, with 30 s in place of an interval that is zero or
\* negative: never longer than --max, and not shorter than 30 s when
\* --max >= 30 s and the interval is not positive or at least 30 s (a
\* positive interval below 30 s is slept as it is); when the idle state is
\* missing or says not idle it returns at once.
C33_SleepDuration == [][C33_SleepStep]_vars

\* an interval of 8 s under --max 5m: the sleep is 8 s
C33_Witness ==
    /\ iwpc = "sleeping"
    /\ ReadIdleState(idleFile) # <<>>
    /\ ReadIdleState(idleFile)[1].BackoffInterval = 8
    /\ iwloc.idleWaitMax = 300
    /\ iwloc.sleepDuration = 8

----------------------------------------------------------------------------
(* Rejected enqueues *)

\* call c fails a precondition of enqueueBead in the current state
FailsPrecondition(c) ==
    \/ c.bead \notin Beads
    \/ c.rig \notin KnownRigs
    \/ /\ c.bead \in Beads
       /\ \/ ~c.opts.Force /\ HomeRig(c.bead) \notin {"", c.rig}
          \/ /\ ~(LabelQueued \in labels[c.bead] /\ status[c.bead] = "open")
             /\ \/ status[c.bead] \in {"pinned", "hooked"} /\ ~c.opts.Force
                \/ c.opts.Formula \notin ({""} \cup KnownFormulas)
                \/ /\ ~c.opts.DryRun
                   /\ c.opts.Formula \notin ({""} \cup CookableFormulas)

\* an enqueueBead invocation returns from its checks in this step
ChecksReturn == nEnq' # nEnq /\ ret'.call # NoCall

C34_RejectStep ==
    ChecksReturn =>
        /\ (FailsPrecondition(ret'.call[1]) \/ ret'.env # "") <=> ret'.err = "error"
        /\ ret'.err = "error" =>
              /\ desc' = desc /\ labels' = labels /\ status' = status
              /\ convoyOf' = convoyOf
              /\ epc'[ret'.who] = "idle"

\* C34: an enqueueBead that fails a precondition (unknown rig, bead not
\* found, cross-rig guard without force, status pinned or hooked without
\* force, formula not found, formula failing to cook) returns an error and
\* leaves no partial state: description and labels are unchanged and no
\* convoy is created.
C34_RejectLeavesNothing == [][C34_RejectStep]_vars

\* b1 has been dispatched and is hooked; an enqueue of b1 without force was
\* just refused while the other enqueuer is in the middle of its writes
C34_Witness ==
    /\ ret.err = "error" /\ ret.call = Call("b1", "r1", ZeroOptions)
    /\ status["b1"] = "hooked"
    /\ \E e \in Enqueuers : epc[e] # "idle"

\* an enqueue with a formula that does not cook was refused
C34_CookWitness ==
    /\ ret.err = "error"
    /\ ret.call = Call("b1", "r1", [ZeroOptions EXCEPT !.Formula = "uncookable"])
    /\ labels["b1"] = {} /\ convoyOf["b1"] = {}

----------------------------------------------------------------------------
(* Batch enqueue: gt sling --queue with several beads, gt queue epic,
   gt convoy queue *)

\* the enqueuer whose enqueueBead calls the batch command makes
BatchEnqueuer == "e1"

BatchKinds == {"sling", "epic", "convoy"}

\* the command-line flags of a batch command
BatchFlags ==
    [DryRun : BOOLEAN, Force : BOOLEAN, NoConvoy : BOOLEAN, HookRawBead : BOOLEAN]

\* the EnqueueOptions each command passes to enqueueBead
BatchOptions(kind, flags) ==
    IF kind = "sling"
    THEN [ZeroOptions EXCEPT
            !.Formula = IF flags.HookRawBead THEN "" ELSE "mol-polecat-work",
            !.NoConvoy = flags.NoConvoy,
            !.Force = flags.Force,
            !.HookRawBead = flags.HookRawBead]
    ELSE IF kind = "epic"
    THEN [ZeroOptions EXCEPT !.Formula = "mol-polecat-work", !.Force = flags.Force]
    ELSE [ZeroOptions EXCEPT !.Formula = "mol-polecat-work", !.NoConvoy = TRUE,
                             !.Force = flags.Force]

successCountAlways(successCount, err) == successCount + 1

\* if err != nil { continue }; successCount++
successCountAfter(successCount, err) ==
    IF err # "" THEN successCount ELSE successCount + 1

BatchFrame ==
    UNCHANGED <<opVars, saveVars, wakeVars, limitVars, pureVars, detectVars>>

\* the command up to its loop: a dry run prints the candidates and returns
BatchStart(kind, candidates, rigName, flags) ==
    /\ bpc = "idle"
    /\ bpc' = IF flags.DryRun \/ candidates = <<>> THEN "done" ELSE "loop"
    /\ bloc' = [kind |-> kind, candidates |-> candidates, rigName |-> rigName,
                opts |-> BatchOptions(kind, flags), i |-> 1, successCount |-> 0,
                errs |-> <<>>]
    /\ ret' = NoRet
    /\ UNCHANGED <<store, activePolecats, lockHolder, queueFile, epc, eloc, dpc,
                   dloc, nEnq, nCycles, nExits, spawned, attempts, commits, lost>>
    /\ BatchFrame

\* the loop body calls enqueueBead for the candidate at position i
BatchCall(now) ==
    /\ bpc = "loop"
    /\ ret.who # BatchEnqueuer
    /\ \E env \in EnqEnvs :
          EnqStart(BatchEnqueuer, bloc.candidates[bloc.i], bloc.rigName, bloc.opts,
                   now, env)

\* enqueueBead has returned err: count it and go on with the next candidate
BatchContinue ==
    /\ bpc = "loop"
    /\ ret.who = BatchEnqueuer
    /\ bloc' = [bloc EXCEPT !.i = @ + 1,
                            !.successCount = successCountAfter(@, ret.err),
                            !.errs = Append(@, ret.err)]
    /\ bpc' = IF bloc.i + 1 > Len(bloc.candidates) THEN "done" ELSE "loop"
    /\ ret' = NoRet
    /\ UNCHANGED <<store, activePolecats, lockHolder, queueFile, epc, eloc, dpc,
                   dloc, nEnq, nCycles, nExits, spawned, attempts, commits, lost>>
    /\ BatchFrame

\* the candidate lists of the batches, and their target rigs
BatchCandidates ==
    { <<"b1", "b2", "b3">>, <<"b2", "b1">>, <<"ghost", "b1">>, <<"b3", "b3">> }

\* SpecBatchEnqueue: one batch command over beads of which b3 is hooked
InitBatchEnqueue ==
    /\ status = [b \in Beads |-> IF b = "b3" THEN "hooked" ELSE "open"]
    /\ labels = [b \in Beads |-> {}]
    /\ desc = [b \in Beads |-> UserDesc(b)]
    /\ commits = [b \in Beads |-> 0]
    /\ InitProcesses
    /\ InitPureIdle
    /\ InitNoFile
    /\ idleFile = <<>>

NextBatchEnqueue ==
    \/ \E kind \in BatchKinds, c \in BatchCandidates, r \in {"r1", "r2"},
          flags \in BatchFlags : BatchStart(kind, c, r, flags)
    \/ \E now \in {"T1"} : BatchCall(now)
    \/ \E fails \in BOOLEAN : EnqWriteDesc(BatchEnqueuer, fails)
    \/ \E fails \in BOOLEAN : EnqAddLabel(BatchEnqueuer, fails)
    \/ \E fails \in BOOLEAN : EnqRollback(BatchEnqueuer, fails)
    \/ EnqConvoy(BatchEnqueuer)
    \/ \E fails \in BOOLEAN : EnqCreateConvoy(BatchEnqueuer, fails)
    \/ \E fails \in BOOLEAN : EnqRepersist(BatchEnqueuer, fails)
    \/ BatchContinue

SpecBatchEnqueue == InitBatchEnqueue /\ [][NextBatchEnqueue]_vars

\* the errors returned so far are those of the first candidates, one each,
\* and the success count is the number of them that are nil
BatchCounts ==
    bpc # "idle" =>
        /\ Len(bloc.errs) = bloc.i - 1
        /\ Len(bloc.errs) <= Len(bloc.candidates)
        /\ bloc.successCount = Cardinality({k \in 1..Len(bloc.errs) : bloc.errs[k] = ""})

\* a batch that is not a dry run ends only after the last candidate
BatchComplete ==
    (bpc = "done" /\ bloc.i > 1) => Len(bloc.errs) = Len(bloc.candidates)

\* every enqueueBead call is for the candidate whose turn it is, with the
\* options of the command; the steps of a call touch no other bead
BatchCallStep ==
    /\ nEnq' # nEnq =>
          /\ bpc = "loop" /\ bloc.i = Len(bloc.errs) + 1
          /\ \/ /\ epc'[BatchEnqueuer] = "writeDesc"
                /\ eloc'[BatchEnqueuer].bead = bloc.candidates[bloc.i]
                /\ eloc'[BatchEnqueuer].meta.TargetRig = bloc.rigName
             \/ ret'.call = Call(bloc.candidates[bloc.i], bloc.rigName, bloc.opts)
    /\ \A b \in Beads :
          (bpc = "loop" /\ b # bloc.candidates[bloc.i]) =>
              /\ labels'[b] = labels[b] /\ desc'[b] = desc[b]
              /\ convoyOf'[b] = convoyOf[b]
    /\ bpc = "done" => store' = store

\* a failure is followed by the call for the next candidate
BatchGoesOn ==
    (bpc = "loop" /\ ret.who = BatchEnqueuer /\ ret.err # ""
       /\ bloc.i < Len(bloc.candidates))
        => bpc' = "loop" /\ bloc'.i = bloc.i + 1

\* C35: a batch enqueue calls enqueueBead for every candidate in order; a
\* failure on one bead does not abort the batch and does not undo the beads
\* already enqueued, and the success count the batch reports is the number
\* of candidates whose enqueueBead returned no error.
C35_BatchEnqueue ==
    /\ [](BatchCounts /\ BatchComplete)
    /\ [][BatchCallStep /\ BatchGoesOn]_vars

\* a batch over b1, b2, b3 to rig r2 has ended: b1 and b2 were enqueued, b3
\* was refused because it is hooked, and the count is 2
C35_Witness ==
    /\ bpc = "done"
    /\ bloc.candidates = <<"b1", "b2", "b3">>
    /\ bloc.errs = <<"", "", "error">>
    /\ bloc.successCount = 2
    /\ LabelQueued \in labels["b1"] /\ LabelQueued \in labels["b2"]
    /\ LabelQueued \notin labels["b3"]

\* the failure came first: the ghost bead was refused, b1 was enqueued after it
C35_FailureFirstWitness ==
    /\ bpc = "done"
    /\ bloc.candidates = <<"ghost", "b1">>
    /\ bloc.errs = <<"error", "">>
    /\ bloc.successCount = 1
    /\ LabelQueued \in labels["b1"]

----------------------------------------------------------------------------
(* Usage-limit detection on a transcript.  A transcript is the sequence of
   its characters; durations are in seconds. *)

UpperLetters ==
    <<"A", "B", "C", "D", "E", "F", "G", "H", "I", "J", "K", "L", "M", "N", "O",
      "P", "Q", "R", "S", "T", "U", "V", "W", "X", "Y", "Z">>
LowerLetters ==
    <<"a", "b", "c", "d", "e", "f", "g", "h", "i", "j", "k", "l", "m", "n", "o",
      "p", "q", "r", "s", "t", "u", "v", "w", "x", "y", "z">>
DecimalDigits == <<"0", "1", "2", "3", "4", "5", "6", "7", "8", "9">>

Range(seq) == {seq[k] : k \in 1..Len(seq)}

\* the character classes of the regular expressions: \d, \s, \w, ["'], [:\s], [- ]
DigitClass == Range(DecimalDigits)
SpaceClass == {" ", "\t", "\n", "\f", "\r"}
WordClass == Range(UpperLetters) \cup Range(LowerLetters) \cup DigitClass \cup {"_"}
QuoteClass == {"\"", "'"}
ColonSpaceClass == {":"} \cup SpaceClass
DashSpaceClass == {"-", " "}

\* the ranges of code points above U+007F that have a lower-case letter
\* (unicode.CaseRanges): <<first, last, the distance to the lower-case
\* letter, the step from one upper-case letter of the range to the next>>
LowerRanges ==
    <<<<192, 214, 32, 1>>, <<216, 222, 32, 1>>, <<256, 302, 1, 2>>,
      <<304, 304, -199, 1>>, <<306, 310, 1, 2>>, <<313, 327, 1, 2>>,
      <<330, 374, 1, 2>>, <<376, 376, -121, 1>>, <<377, 381, 1, 2>>,
      <<385, 385, 210, 1>>, <<386, 388, 1, 2>>, <<390, 390, 206, 1>>,
      <<391, 391, 1, 1>>, <<393, 394, 205, 1>>, <<395, 395, 1, 1>>,
      <<398, 398, 79, 1>>, <<399, 399, 202, 1>>, <<400, 400, 203, 1>>,
      <<401, 401, 1, 1>>, <<403, 403, 205, 1>>, <<404, 404, 207, 1>>,
      <<406, 406, 211, 1>>, <<407, 407, 209, 1>>, <<408, 408, 1, 1>>,
      <<412, 412, 211, 1>>, <<413, 413, 213, 1>>, <<415, 415, 214, 1>>,
      <<416, 420, 1, 2>>, <<422, 422, 218, 1>>, <<423, 423, 1, 1>>,
      <<425, 425, 218, 1>>, <<428, 428, 1, 1>>, <<430, 430, 218, 1>>,
      <<431, 431, 1, 1>>, <<433, 434, 217, 1>>, <<435, 437, 1, 2>>,
      <<439, 439, 219, 1>>, <<440, 440, 1, 1>>, <<444, 444, 1, 1>>,
      <<452, 452, 2, 1>>, <<453, 453, 1, 1>>, <<455, 455, 2, 1>>,
      <<456, 456, 1, 1>>, <<458, 458, 2, 1>>, <<459, 475, 1, 2>>,
      <<478, 494, 1, 2>>, <<497, 497, 2, 1>>, <<498, 500, 1, 2>>,
      <<502, 502, -97, 1>>, <<503, 503, -56, 1>>, <<504, 542, 1, 2>>,
      <<544, 544, -130, 1>>, <<546, 562, 1, 2>>, <<570, 570, 10795, 1>>,
      <<571, 571, 1, 1>>, <<573, 573, -163, 1>>, <<574, 574, 10792, 1>>,
      <<577, 577, 1, 1>>, <<579, 579, -195, 1>>, <<580, 580, 69, 1>>,
      <<581, 581, 71, 1>>, <<582, 590, 1, 2>>, <<880, 882, 1, 2>>,
      <<886, 886, 1, 1>>, <<895, 895, 116, 1>>, <<902, 902, 38, 1>>,
      <<904, 906, 37, 1>>, <<908, 908, 64, 1>>, <<910, 911, 63, 1>>,
      <<913, 929, 32, 1>>, <<931, 939, 32, 1>>, <<975, 975, 8, 1>>,
      <<984, 1006, 1, 2>>, <<1012, 1012, -60, 1>>, <<1015, 1015, 1, 1>>,
      <<1017, 1017, -7, 1>>, <<1018, 1018, 1, 1>>, <<1021, 1023, -130, 1>>,
      <<1024, 1039, 80, 1>>, <<1040, 1071, 32, 1>>, <<1120, 1152, 1, 2>>,
      <<1162, 1214, 1, 2>>, <<1216, 1216, 15, 1>>, <<1217, 1229, 1, 2>>,
      <<1232, 1326, 1, 2>>, <<1329, 1366, 48, 1>>, <<4256, 4293, 7264, 1>>,
      <<4295, 4295, 7264, 1>>, <<4301, 4301, 7264, 1>>, <<5024, 5103, 38864, 1>>,
      <<5104, 5109, 8, 1>>, <<7312, 7354, -3008, 1>>, <<7357, 7359, -3008, 1>>,
      <<7680, 7828, 1, 2>>, <<7838, 7838, -7615, 1>>, <<7840, 7934, 1, 2>>,
      <<7944, 7951, -8, 1>>, <<7960, 7965, -8, 1>>, <<7976, 7983, -8, 1>>,
      <<7992, 7999, -8, 1>>, <<8008, 8013, -8, 1>>, <<8025, 8031, -8, 2>>,
      <<8040, 8047, -8, 1>>, <<8072, 8079, -8, 1>>, <<8088, 8095, -8, 1>>,
      <<8104, 8111, -8, 1>>, <<8120, 8121, -8, 1>>, <<8122, 8123, -74, 1>>,
      <<8124, 8124, -9, 1>>, <<8136, 8139, -86, 1>>, <<8140, 8140, -9, 1>>,
      <<8152, 8153, -8, 1>>, <<8154, 8155, -100, 1>>, <<8168, 8169, -8, 1>>,
      <<8170, 8171, -112, 1>>, <<8172, 8172, -7, 1>>, <<8184, 8185, -128, 1>>,
      <<8186, 8187, -126, 1>>, <<8188, 8188, -9, 1>>, <<8486, 8486, -7517, 1>>,
      <<8490, 8490, -8383, 1>>, <<8491, 8491, -8262, 1>>, <<8498, 8498, 28, 1>>,
      <<8544, 8559, 16, 1>>, <<8579, 8579, 1, 1>>, <<9398, 9423, 26, 1>>,
      <<11264, 11311, 48, 1>>, <<11360, 11360, 1, 1>>, <<11362, 11362, -10743, 1>>,
      <<11363, 11363, -3814, 1>>, <<11364, 11364, -10727, 1>>, <<11367, 11371, 1, 2>>,
      <<11373, 11373, -10780, 1>>, <<11374, 11374, -10749, 1>>, <<11375, 11375, -10783, 1>>,
      <<11376, 11376, -10782, 1>>, <<11378, 11378, 1, 1>>, <<11381, 11381, 1, 1>>,
      <<11390, 11391, -10815, 1>>, <<11392, 11490, 1, 2>>, <<11499, 11501, 1, 2>>,
      <<11506, 11506, 1, 1>>, <<42560, 42604, 1, 2>>, <<42624, 42650, 1, 2>>,
      <<42786, 42798, 1, 2>>, <<42802, 42862, 1, 2>>, <<42873, 42875, 1, 2>>,
      <<42877, 42877, -35332, 1>>, <<42878, 42886, 1, 2>>, <<42891, 42891, 1, 1>>,
      <<42893, 42893, -42280, 1>>, <<42896, 42898, 1, 2>>, <<42902, 42920, 1, 2>>,
      <<42922, 42922, -42308, 1>>, <<42923, 42923, -42319, 1>>, <<42924, 42924, -42315, 1>>,
      <<42925, 42925, -42305, 1>>, <<42926, 42926, -42308, 1>>, <<42928, 42928, -42258, 1>>,
      <<42929, 42929, -42282, 1>>, <<42930, 42930, -42261, 1>>, <<42931, 42931, 928, 1>>,
      <<42932, 42946, 1, 2>>, <<42948, 42948, -48, 1>>, <<42949, 42949, -42307, 1>>,
      <<42950, 42950, -35384, 1>>, <<42951, 42953, 1, 2>>, <<42960, 42960, 1, 1>>,
      <<42966, 42968, 1, 2>>, <<42997, 42997, 1, 1>>, <<65313, 65338, 32, 1>>,
      <<66560, 66599, 40, 1>>, <<66736, 66771, 40, 1>>, <<66928, 66938, 39, 1>>,
      <<66940, 66954, 39, 1>>, <<66956, 66962, 39, 1>>, <<66964, 66965, 39, 1>>,
      <<68736, 68786, 64, 1>>, <<71840, 71871, 32, 1>>, <<93760, 93791, 32, 1>>,
      <<125184, 125217, 34, 1>>>>

\* unicode.ToLower on the code point p, which is above U+007F
LowerPoint(p) ==
    IF \E k \in 1..Len(LowerRanges) :
           /\ LowerRanges[k][1] <= p /\ p <= LowerRanges[k][2]
           /\ (p - LowerRanges[k][1]) % LowerRanges[k][4] = 0
    THEN p + LowerRanges[CHOOSE k \in 1..Len(LowerRanges) :
                            /\ LowerRanges[k][1] <= p /\ p <= LowerRanges[k][2]
                            /\ (p - LowerRanges[k][1]) % LowerRanges[k][4] = 0][3]
    ELSE p

\* strings.ToLower
ToLowerChar(c) ==
    IF \E k \in 1..26 : UpperLetters[k] = c
    THEN LowerLetters[CHOOSE k \in 1..26 : UpperLetters[k] = c]
    ELSE IF IsASCII(c) THEN c
    ELSE CharOf(LowerPoint(CodePoint(c)))
ToLower(s) == [k \in 1..Len(s) |-> ToLowerChar(s[k])]

\* p occurs in s at position i
StartsAt(s, i, p) ==
    /\ i >= 1
    /\ i + Len(p) - 1 <= Len(s)
    /\ \A k \in 1..Len(p) : s[i + k - 1] = p[k]

\* strings.Contains
Contains(s, p) == \E i \in 1..(Len(s) + 1) : StartsAt(s, i, p)

\* Matching from position i returns the position after the match, 0 for no
\* match; a position of 0 is passed on.
\* a literal
Lit(s, i, p) == IF i > 0 /\ StartsAt(s, i, p) THEN i + Len(p) ELSE 0
\* one of several literals of which at most one can start at a position
AnyLit(s, i, ps) ==
    IF i > 0 /\ \E p \in ps : StartsAt(s, i, p)
    THEN i + Len(CHOOSE p \in ps : StartsAt(s, i, p))
    ELSE 0
\* [class]?
Opt(s, i, class) == IF i > 0 /\ i <= Len(s) /\ s[i] \in class THEN i + 1 ELSE i
\* the end of the longest run of class characters from i
RECURSIVE Run(_, _, _)
Run(s, i, class) ==
    IF i <= Len(s) /\ s[i] \in class THEN Run(s, i + 1, class) ELSE i
\* [class]* and [class]+ in front of something outside the class
Many0(s, i, class) == IF i = 0 THEN 0 ELSE Run(s, i, class)
Many1(s, i, class) ==
    IF i = 0 THEN 0 ELSE IF Run(s, i, class) > i THEN Run(s, i, class) ELSE 0
\* \d{n}
DigitsN(s, i, n) ==
    IF i > 0 /\ i + n - 1 <= Len(s) /\ \A k \in 0..(n - 1) : s[i + k] \in DigitClass
    THEN i + n ELSE 0

\* strconv.Atoi of a run of digits
DigitValue(c) == CHOOSE n \in 0..9 : DecimalDigits[n + 1] = c
RECURSIVE AtoiDigits(_)
AtoiDigits(ds) ==
    IF ds = <<>> THEN 0
    ELSE 10 * AtoiDigits(SubSeq(ds, 1, Len(ds) - 1)) + DigitValue(ds[Len(ds)])
Number(s, i, j) == AtoiDigits(SubSeq(s, i, j - 1))

\* FindStringSubmatch: the leftmost position at which At(s, i) is a match
Leftmost(s, At(_, _)) ==
    LET hits == {i \in 1..Len(s) : At(s, i) # <<>>}
    IN IF hits = {} THEN <<>>
       ELSE At(s, CHOOSE i \in hits : \A j \in hits : i <= j)

\* usageLimitPatterns, in list order: the text looked for, and the reason
usageLimitPatterns ==
    <<
      \* rate_limit_error
      [pattern |-> <<"r", "a", "t", "e", "_", "l", "i", "m", "i", "t", "_",
                     "e", "r", "r", "o", "r">>,
       reason |-> "Anthropic API rate_limit_error"],
      \* status.*429
      [pattern |-> <<"s", "t", "a", "t", "u", "s", ".", "*", "4", "2", "9">>,
       reason |-> "HTTP 429 Too Many Requests"],
      \* error.*429
      [pattern |-> <<"e", "r", "r", "o", "r", ".", "*", "4", "2", "9">>,
       reason |-> "HTTP 429 error"],
      \* 429
      [pattern |-> <<"4", "2", "9">>,
       reason |-> "HTTP 429"],
      \* overloaded_error
      [pattern |-> <<"o", "v", "e", "r", "l", "o", "a", "d", "e", "d", "_",
                     "e", "r", "r", "o", "r">>,
       reason |-> "Anthropic API overloaded_error (529)"],
      \* rate limit
      [pattern |-> <<"r", "a", "t", "e", " ", "l", "i", "m", "i", "t">>,
       reason |-> "rate limit detected"],
      \* ratelimit
      [pattern |-> <<"r", "a", "t", "e", "l", "i", "m", "i", "t">>,
       reason |-> "ratelimit detected"],
      \* too many requests
      [pattern |-> <<"t", "o", "o", " ", "m", "a", "n", "y", " ", "r", "e",
                     "q", "u", "e", "s", "t", "s">>,
       reason |-> "too many requests"],
      \* usage limit
      [pattern |-> <<"u", "s", "a", "g", "e", " ", "l", "i", "m", "i", "t">>,
       reason |-> "usage limit reached"],
      \* you've reached your limit
      [pattern |-> <<"y", "o", "u", "'", "v", "e", " ", "r", "e", "a", "c",
                     "h", "e", "d", " ", "y", "o", "u", "r", " ", "l", "i",
                     "m", "i", "t">>,
       reason |-> "subscription limit reached"],
      \* you have reached your limit
      [pattern |-> <<"y", "o", "u", " ", "h", "a", "v", "e", " ", "r", "e",
                     "a", "c", "h", "e", "d", " ", "y", "o", "u", "r", " ",
                     "l", "i", "m", "i", "t">>,
       reason |-> "subscription limit reached"],
      \* exceeded your limit
      [pattern |-> <<"e", "x", "c", "e", "e", "d", "e", "d", " ", "y", "o",
                     "u", "r", " ", "l", "i", "m", "i", "t">>,
       reason |-> "limit exceeded"],
      \* reached your usage limit
      [pattern |-> <<"r", "e", "a", "c", "h", "e", "d", " ", "y", "o", "u",
                     "r", " ", "u", "s", "a", "g", "e", " ", "l", "i", "m",
                     "i", "t">>,
       reason |-> "usage limit reached"],
      \* usage cap
      [pattern |-> <<"u", "s", "a", "g", "e", " ", "c", "a", "p">>,
       reason |-> "usage cap reached"],
      \* token limit
      [pattern |-> <<"t", "o", "k", "e", "n", " ", "l", "i", "m", "i", "t">>,
       reason |-> "token limit reached"],
      \* tokens per minute
      [pattern |-> <<"t", "o", "k", "e", "n", "s", " ", "p", "e", "r", " ",
                     "m", "i", "n", "u", "t", "e">>,
       reason |-> "TPM limit"],
      \* requests per minute
      [pattern |-> <<"r", "e", "q", "u", "e", "s", "t", "s", " ", "p", "e",
                     "r", " ", "m", "i", "n", "u", "t", "e">>,
       reason |-> "RPM limit"],
      \* api limit
      [pattern |-> <<"a", "p", "i", " ", "l", "i", "m", "i", "t">>,
       reason |-> "API limit"],
      \* request limit
      [pattern |-> <<"r", "e", "q", "u", "e", "s", "t", " ", "l", "i", "m",
                     "i", "t">>,
       reason |-> "request limit"]
    >>

\* the first line of a transcript: what the agent printed
TranscriptHeads ==
    <<
      \* ""
      <<>>,
      \* "HTTP 429\n"
      <<"H", "T", "T", "P", " ", "4", "2", "9", "\n">>,
      \* "rate_limit_error\n"
      <<"r", "a", "t", "e", "_", "l", "i", "m", "i", "t", "_", "e", "r",
        "r", "o", "r", "\n">>,
      \* "status: 429\n"
      <<"s", "t", "a", "t", "u", "s", ":", " ", "4", "2", "9", "\n">>,
      \* "Rate Limit hit\n"
      <<"R", "a", "t", "e", " ", "L", "i", "m", "i", "t", " ", "h", "i",
        "t", "\n">>,
      \* "all good\n"
      <<"a", "l", "l", " ", "g", "o", "o", "d", "\n">>,
      \* "overloaded_error 429\n"
      <<"o", "v", "e", "r", "l", "o", "a", "d", "e", "d", "_", "e", "r",
        "r", "o", "r", " ", "4", "2", "9", "\n">>
    >>

\* the hint about the reset time that follows it
TranscriptHints ==
    <<
      \* ""
      <<>>,
      \* "retry-after: 60"
      <<"r", "e", "t", "r", "y", "-", "a", "f", "t", "e", "r", ":", " ",
        "6", "0">>,
      \* "retry-after: 90000"
      <<"r", "e", "t", "r", "y", "-", "a", "f", "t", "e", "r", ":", " ",
        "9", "0", "0", "0", "0">>,
      \* "retry-after: 0"
      <<"r", "e", "t", "r", "y", "-", "a", "f", "t", "e", "r", ":", " ",
        "0">>,
      \* "Retry after 5 minutes"
      <<"R", "e", "t", "r", "y", " ", "a", "f", "t", "e", "r", " ", "5",
        " ", "m", "i", "n", "u", "t", "e", "s">>,
      \* "retry-after":120"
      <<"r", "e", "t", "r", "y", "-", "a", "f", "t", "e", "r", "\"", ":",
        "1", "2", "0">>,
      \* "try again in 2 hours"
      <<"t", "r", "y", " ", "a", "g", "a", "i", "n", " ", "i", "n", " ",
        "2", " ", "h", "o", "u", "r", "s">>,
      \* "reset at 3:00 PM"
      <<"r", "e", "s", "e", "t", " ", "a", "t", " ", "3", ":", "0", "0",
        " ", "P", "M">>,
      \* "anthropic-ratelimit-tokens-reset: 2026-01-29T12:00:00Z"
      <<"a", "n", "t", "h", "r", "o", "p", "i", "c", "-", "r", "a", "t",
        "e", "l", "i", "m", "i", "t", "-", "t", "o", "k", "e", "n", "s",
        "-", "r", "e", "s", "e", "t", ":", " ", "2", "0", "2", "6", "-",
        "0", "1", "-", "2", "9", "T", "1", "2", ":", "0", "0", ":", "0",
        "0", "Z">>
    >>

\* what follows the hint
TranscriptTails ==
    <<
      \* ""
      <<>>,
      \* "\nserver: api"
      <<"\n", "s", "e", "r", "v", "e", "r", ":", " ", "a", "p", "i">>,
      \* " seconds"
      <<" ", "s", "e", "c", "o", "n", "d", "s">>
    >>

RetryAfterHeader == <<"r", "e", "t", "r", "y", "-", "a", "f", "t", "e",
                      "r">>
RetryWord == <<"r", "e", "t", "r", "y">>
AfterWord == <<"a", "f", "t", "e", "r">>
RatelimitDash == <<"r", "a", "t", "e", "l", "i", "m", "i", "t", "-">>
DashReset == <<"-", "r", "e", "s", "e", "t">>
InWord == <<"i", "n">>
AtWord == <<"a", "t">>
\* reset | available | try again | wait
ResetWords ==
    {<<"r", "e", "s", "e", "t">>,
     <<"a", "v", "a", "i", "l", "a", "b", "l", "e">>,
     <<"t", "r", "y", " ", "a", "g", "a", "i", "n">>,
     <<"w", "a", "i", "t">>}
\* reset | available
ResetAtWords ==
    {<<"r", "e", "s", "e", "t">>,
     <<"a", "v", "a", "i", "l", "a", "b", "l", "e">>}

\* retry-after["']?[:\s]+(\d+)
RetryAfterSecsAt(s, i) ==
    LET a == Lit(s, i, RetryAfterHeader)
        b == Opt(s, a, QuoteClass)
        c == Many1(s, b, ColonSpaceClass)
        d == Many1(s, c, DigitClass)
    IN IF d = 0 THEN <<>> ELSE <<[value |-> Number(s, c, d)]>>

\* the unit alternatives second|minute|hour|sec|min|hr|s|m|h start with s, m
\* or h, and the switch looks at that first letter only
UnitClass == {"s", "m", "h"}
UnitSeconds(c) == IF c = "s" THEN 1 ELSE IF c = "m" THEN 60 ELSE 3600

\* (\d+)\s*(second|minute|hour|sec|min|hr|s|m|h) from position c
ValueUnitAt(s, c) ==
    LET d == Many1(s, c, DigitClass)
        e == Many0(s, d, SpaceClass)
    IN IF e = 0 \/ e > Len(s) \/ s[e] \notin UnitClass THEN <<>>
       ELSE <<[value |-> Number(s, c, d), unit |-> s[e]]>>

\* retry[- ]?after[:\s]+(\d+)\s*(second|minute|hour|sec|min|hr|s|m|h)
RetryAfterAt(s, i) ==
    LET a == Lit(s, i, RetryWord)
        b == Opt(s, a, DashSpaceClass)
        c == Many1(s, Lit(s, b, AfterWord), ColonSpaceClass)
    IN ValueUnitAt(s, c)

\* (?:reset|available|try again|wait)\s+(?:in\s+)?(\d+)\s*(second|...|h)
InTimeAt(s, i) ==
    LET a == Many1(s, AnyLit(s, i, ResetWords), SpaceClass)
        b == Many1(s, Lit(s, a, InWord), SpaceClass)
    IN ValueUnitAt(s, IF b = 0 THEN a ELSE b)

\* (?:reset|available)\s+at\s+(\d{1,2}):(\d{2})
AtTimeAt(s, i) ==
    LET a == Many1(s, AnyLit(s, i, ResetAtWords), SpaceClass)
        b == Many1(s, Lit(s, a, AtWord), SpaceClass)
        c == IF DigitsN(s, b, 2) # 0 THEN DigitsN(s, b, 2) ELSE DigitsN(s, b, 1)
        d == Lit(s, c, <<":">>)
        e == DigitsN(s, d, 2)
    IN IF e = 0 THEN <<>>
       ELSE <<[hour |-> Number(s, b, c), minute |-> Number(s, d, e)]>>

\* ratelimit-\w+-reset["']?:\s*["']?(\d{4}-\d{2}-\d{2}T\d{2}:\d{2}:\d{2}Z?)
ResetTimestampAt(s, i) ==
    LET a == Many1(s, Lit(s, i, RatelimitDash), WordClass)
        b == Opt(s, Lit(s, a, DashReset), QuoteClass)
        c == Opt(s, Many0(s, Lit(s, b, <<":">>), SpaceClass), QuoteClass)
        y == DigitsN(s, c, 4)
        m == DigitsN(s, Lit(s, y, <<"-">>), 2)
        d == DigitsN(s, Lit(s, m, <<"-">>), 2)
        hh == DigitsN(s, Lit(s, d, <<"T">>), 2)
        mm == DigitsN(s, Lit(s, hh, <<":">>), 2)
        ss == DigitsN(s, Lit(s, mm, <<":">>), 2)
    IN IF ss = 0 THEN <<>>
       ELSE <<[year |-> Number(s, c, y), month |-> Number(s, y + 1, m),
               day |-> Number(s, m + 1, d), hour |-> Number(s, d + 1, hh),
               minute |-> Number(s, hh + 1, mm), second |-> Number(s, mm + 1, ss),
               zulu |-> Lit(s, ss, <<"Z">>) # 0]>>

\* the days of a month, and the day number of a date (days since 0000-03-01)
IsLeap(y) == y % 4 = 0 /\ (y % 100 # 0 \/ y % 400 = 0)
DaysIn(y, m) ==
    IF m = 2 THEN (IF IsLeap(y) THEN 29 ELSE 28)
    ELSE IF m \in {4, 6, 9, 11} THEN 30 ELSE 31
DayNumber(y, m, d) ==
    LET yy == IF m <= 2 THEN y - 1 ELSE y
        mp == IF m <= 2 THEN m + 9 ELSE m - 3
    IN 365 * yy + (yy \div 4) - (yy \div 100) + (yy \div 400)
         + ((153 * mp + 2) \div 5) + d - 1

\* time.Parse(time.RFC3339, text): <<>> for an error
ParseRFC3339(t) ==
    IF /\ t.zulu
       /\ t.month \in 1..12 /\ t.day \in 1..DaysIn(t.year, t.month)
       /\ t.hour < 24 /\ t.minute < 60 /\ t.second < 60
    THEN <<[day |-> DayNumber(t.year, t.month, t.day),
            sec |-> 3600 * t.hour + 60 * t.minute + t.second]>>
    ELSE <<>>

SecondsPerDay == 86400

\* time.Until(t) at clock reading now
Until(t, now) == (t.day - now.day) * SecondsPerDay + (t.sec - now.sec)

\* extractResetDuration(transcript), the clock reading now
extractResetDuration(text, now) ==
    LET lower == ToLower(text)
        r1 == Leftmost(lower, RetryAfterSecsAt)
        r2 == Leftmost(lower, RetryAfterAt)
        r3 == Leftmost(text, ResetTimestampAt)
        r4 == Leftmost(lower, InTimeAt)
        r5 == Leftmost(lower, AtTimeAt)
        t3 == IF r3 = <<>> THEN <<>> ELSE ParseRFC3339(r3[1])
        at == 3600 * r5[1].hour + 60 * r5[1].minute
    IN IF r1 # <<>> /\ r1[1].value > 0 /\ r1[1].value < SecondsPerDay
       THEN r1[1].value
       ELSE IF r2 # <<>> THEN r2[1].value * UnitSeconds(r2[1].unit)
       ELSE IF t3 # <<>> /\ Until(t3[1], now) > 0 THEN Until(t3[1], now)
       ELSE IF r4 # <<>> THEN r4[1].value * UnitSeconds(r4[1].unit)
       ELSE IF r5 # <<>>
       THEN (IF at < now.sec THEN at + SecondsPerDay - now.sec ELSE at - now.sec)
       ELSE 0

\* the first pattern of the list, from position k on, that lower contains:
\* its position in the list, 0 when there is none
RECURSIVE FirstPattern(_, _)
FirstPattern(lower, k) ==
    IF k > Len(usageLimitPatterns) THEN 0
    ELSE IF Contains(lower, usageLimitPatterns[k].pattern) THEN k
    ELSE FirstPattern(lower, k + 1)

OneHour == 3600
DefaultResetSuffix == " (default 1h reset)"

\* detectUsageLimit(transcript): (isLimited, resetDuration, reason)
detectUsageLimit(text, now) ==
    LET k == FirstPattern(ToLower(text), 1)
        resetDuration == extractResetDuration(text, now)
    IN IF k = 0 THEN [limited |-> FALSE, resetDuration |-> 0, reason |-> ""]
       ELSE IF resetDuration = 0
       THEN [limited |-> TRUE, resetDuration |-> OneHour,
             reason |-> usageLimitPatterns[k].reason \o DefaultResetSuffix]
       ELSE [limited |-> TRUE, resetDuration |-> resetDuration,
             reason |-> usageLimitPatterns[k].reason]

\* the clock readings of the calls: the day number and the second of the day
\* of 2026-01-29 10:30:15 and 15:00:15 UTC
DetectClocks ==
    {[day |-> DayNumber(2026, 1, 29), sec |-> 37815],
     [day |-> DayNumber(2026, 1, 29), sec |-> 54015]}

\* the transcripts: a first line, a hint, and what follows it
DetectInputs ==
    {TranscriptHeads[h] \o TranscriptHints[m] \o TranscriptTails[t] :
        h \in 1..Len(TranscriptHeads), m \in 1..Len(TranscriptHints),
        t \in 1..Len(TranscriptTails)}

\* SpecDetect: detectUsageLimit on a transcript drawn from the inputs
InitDetect ==
    /\ status = [b \in Beads |-> "open"]
    /\ labels = [b \in Beads |-> {}]
    /\ desc = [b \in Beads |-> UserDesc(b)]
    /\ commits = [b \in Beads |-> 0]
    /\ InitProcesses
    /\ InitNoFile
    /\ idleFile = <<>>
    /\ codecPc = "idle"
    /\ codecMeta = ZeroMeta
    /\ codecDesc = <<>>
    /\ codecOut = <<>>
    /\ backoffCur = 0
    /\ nBackoffs = 0
    /\ transcript \in DetectInputs
    /\ detection = <<>>

Detect(now) ==
    /\ detection = <<>>
    /\ detection' = <<[out |-> detectUsageLimit(transcript, now), now |-> now]>>
    /\ UNCHANGED <<queueVars, opVars, saveVars, wakeVars, limitVars, pureVars,
                   batchVars, transcript>>

NextDetect == \E now \in DetectClocks : Detect(now)

SpecDetect == InitDetect /\ [][NextDetect]_vars

\* the patterns the lowercased transcript contains, by position in the list
Matching(text) ==
    {k \in 1..Len(usageLimitPatterns) :
        Contains(ToLower(text), usageLimitPatterns[k].pattern)}

\* one of the five reset-time expressions matches the transcript
HasResetTime(text) ==
    \/ \E f \in {1, 2, 4, 5} :
          LET lower == ToLower(text)
          IN IF f = 1 THEN Leftmost(lower, RetryAfterSecsAt) # <<>>
             ELSE IF f = 2 THEN Leftmost(lower, RetryAfterAt) # <<>>
             ELSE IF f = 4 THEN Leftmost(lower, InTimeAt) # <<>>
             ELSE Leftmost(lower, AtTimeAt) # <<>>
    \/ Leftmost(text, ResetTimestampAt) # <<>>

\* a limit is reported exactly when a pattern matches, with the reason of the
\* first matching pattern, and with the default of one hour when no reset
\* time is in the transcript
DetectionSound ==
    detection # <<>> =>
        LET out == detection[1].out
            ks == Matching(transcript)
            first == CHOOSE k \in ks : \A j \in ks : k <= j
        IN /\ out.limited <=> ks # {}
           /\ ks = {} => out.resetDuration = 0 /\ out.reason = ""
           /\ ks # {} =>
                 /\ out.reason \in
                       {usageLimitPatterns[first].reason,
                        usageLimitPatterns[first].reason \o DefaultResetSuffix}
                 /\ ~HasResetTime(transcript) =>
                       /\ out.resetDuration = OneHour
                       /\ out.reason =
                             usageLimitPatterns[first].reason \o DefaultResetSuffix

\* the value of a retry-after header is the reset duration only when it is
\* above 0 and below 86400
RetryAfterChecked ==
    detection # <<>> =>
        LET out == detection[1].out
            header == Leftmost(ToLower(transcript), RetryAfterSecsAt)
        IN (out.limited /\ header # <<>> /\ out.resetDuration = header[1].value
              /\ out.reason \in {usageLimitPatterns[k].reason :
                                   k \in 1..Len(usageLimitPatterns)})
            => (header[1].value > 0 /\ header[1].value < 86400)

\* C36: detectUsageLimit reports a limit exactly when the lowercased
\* transcript matches at least one pattern of the list, records the reason of
\* the first pattern in list order that matches, returns one hour with
\* " (default 1h reset)" appended when no reset time can be extracted, and
\* uses a retry-after value of N seconds only when 0 < N < 86400.
C36_Detection == DetectionSound /\ RetryAfterChecked

\* a 429 with the header retry-after: 90000 followed by the next header
C36_Witness ==
    /\ detection # <<>>
    /\ transcript = TranscriptHeads[2] \o TranscriptHints[3] \o TranscriptTails[2]
    /\ detection[1].out.limited

----------------------------------------------------------------------------
(* What a successful enqueueBead leaves behind *)

\* a bead with labels ls and description d carries gt:queued and d holds
\* exactly one metadata block, which parses with target_rig = rigName
QueuedFor(ls, d, rigName) ==
    /\ LabelQueued \in ls
    /\ Delimiters(d) = 1
    /\ ParseQueueMetadata(d) # <<>>
    /\ ParseQueueMetadata(d)[1].TargetRig = rigName

\* the bead of request r is queued for it after the step
QueuedAfter(r) == QueuedFor(labels'[r.bead], desc'[r.bead], r.rig)

\* enqueuer e returns success in this step from a call that is not a dry run:
\* the bead and the rig of the call
SuccessOf(e) ==
    IF ret'.who # e \/ ret'.err # "" THEN <<>>
    ELSE IF ret'.call # NoCall
    THEN (IF ret'.call[1].opts.DryRun THEN <<>>
          ELSE <<[bead |-> ret'.call[1].bead, rig |-> ret'.call[1].rig]>>)
    ELSE <<[bead |-> eloc[e].bead, rig |-> eloc[e].meta.TargetRig]>>

C37_SuccessStep ==
    \A e \in Enqueuers :
        SuccessOf(e) # <<>> => QueuedAfter(SuccessOf(e)[1])

\* C37: whenever a non-dry-run enqueueBead(bead, rig, opts) returns success,
\* the bead carries gt:queued and its description holds exactly one parseable
\* metadata block whose target_rig is rig, in every interleaving with a
\* second enqueueBead on the same bead and on the already-queued no-op path.
C37_SuccessMeansQueued == [][C37_SuccessStep]_vars

\* the same for the calls that went through their writes only
C37_WritePathStep ==
    \A e \in Enqueuers :
        (SuccessOf(e) # <<>> /\ ret'.call = NoCall)
            => QueuedAfter(SuccessOf(e)[1])

C37_WritePath == [][C37_WritePathStep]_vars

----------------------------------------------------------------------------
(* Progress of the queue *)

\* SpecLive: the daemon's heartbeat runs dispatch cycles again and again over
\* three queued beads.  The queue is enabled and not paused, bd ready answers
\* in both directories, max_polecats is 0 (no limit) or 3, the batch size is 1
\* or 2, and the executor succeeds or fails as it likes.
InitLive ==
    /\ status = [b \in Beads |-> "open"]
    /\ labels = [b \in Beads |-> {LabelQueued}]
    /\ desc = [b \in Beads |-> EnqueuedDesc(b, IF b = "b1" THEN "r1" ELSE "r2")]
    /\ commits = [b \in Beads |-> 1]
    /\ InitProcesses
    /\ InitPureIdle
    /\ InitNoFile
    /\ idleFile = <<>>

NextLive ==
    \/ nCycles < LiveCycles /\ DispStart("daemon", FALSE, FALSE)
    \/ DispLoad("daemon", FALSE)
    \/ \E cm \in {0, 3}, bo \in {0, 1} : DispLimits("daemon", TRUE, TRUE, cm, 0, 2, bo)
    \/ DispQuery("daemon", FALSE)
    \/ \E ok \in BOOLEAN : DispBead("daemon", ok, FALSE)
    \/ DispRecordDesc("daemon", FALSE)
    \/ DispRecordLabel("daemon", FALSE)
    \/ DispStrip("daemon", FALSE)
    \/ DispSwap("daemon", FALSE)
    \/ DispPost("daemon", FALSE)
    \/ \E now \in DispatchTimes : DispSave("daemon", now, FALSE)

\* the places of a dispatch cycle
DispatchPlaces ==
    {"idle", "load", "limits", "query", "loop", "recordDesc", "recordLabel",
     "strip", "swap", "post", "save"}

\* the daemon's control: the place of its cycle and the count of heartbeats
daemonControl == <<dpc, nCycles>>

\* the daemon has a step to take: it is inside a cycle, or the heartbeat has
\* another cycle to start
DaemonCanStep == dpc["daemon"] # "idle" \/ nCycles < LiveCycles

\* the daemon moves on.  Every step of NextLive changes daemonControl
\* (LiveStepsMove), and NextLive is enabled exactly when DaemonCanStep holds,
\* so that weak fairness of DaemonMoves is weak fairness of NextLive
DaemonMoves ==
    /\ DaemonCanStep
    /\ dpc' \in [Dispatchers -> DispatchPlaces]
    /\ nCycles' \in {nCycles, nCycles + 1}

LiveStepsMove == [][daemonControl' # daemonControl]_vars

\* every cycle the heartbeat starts runs to its end, and the heartbeat starts
\* the next one
SpecLive == InitLive /\ [][NextLive]_vars /\ WF_daemonControl(DaemonMoves)

\* the bead was dispatched, or quarantined
Settled(b) == LabelDispatched \in labels[b] \/ LabelDispatchFailed \in labels[b]

\* C38: under repeated dispatch cycles with the queue not paused, free
\* capacity, a batch size of at least 1 and a store that answers, every
\* actively queued ready bead is eventually dispatched (gt:queue-dispatched)
\* or quarantined (gt:dispatch-failed): beads that keep failing at the head
\* of the ready set do not starve the beads behind them.
C38_Progress == \A b \in Beads : BdReady(b) ~> Settled(b)

\* b1 failed three times at the head of the ready set and was quarantined;
\* b2, behind it, was dispatched while b3 has not been tried yet
C38_Witness ==
    /\ attempts["b1"] = 3 /\ LabelDispatchFailed \in labels["b1"]
    /\ LabelDispatched \in labels["b2"] /\ spawned["b2"] = 1
    /\ attempts["b3"] = 0

\* ---------------------------------------------------------------------------
\* The frame of recordDispatchFailure below the threshold
\* ---------------------------------------------------------------------------

\* the metadata stored in a description (the zero metadata without a block)
StoredMeta(d) ==
    LET parsed == ParseQueueMetadata(d)
    IN IF parsed = <<>> THEN ZeroMeta ELSE parsed[1]

\* the description text before the metadata block
TextBefore(d) ==
    IF DelimIndex(d) = 0 THEN d ELSE SubSeq(d, 1, DelimIndex(d) - 1)

\* between two stored descriptions only dispatch_failures (+1) and
\* last_failure differ
OnlyFailureRecorded(before, after) ==
    /\ TextBefore(after) = TextBefore(before)
    /\ StoredMeta(after) =
           [StoredMeta(before) EXCEPT !.DispatchFailures = Int64Inc(@),
                                      !.LastFailure = SlingError]

\* dispatcher d returns from recordDispatchFailure with a counter below
\* maxDispatchFailures
RecordsBelowThreshold(d) ==
    dpc[d] = "recordDesc" /\ dpc'[d] \in {"loop", "post"}

C39_FrameStep ==
    \A d \in Dispatchers :
        RecordsBelowThreshold(d) =>
            /\ labels' = labels
            /\ \A b \in Beads : b # Cur(d).ID => desc'[b] = desc[b]
            /\ OnlyFailureRecorded(desc[Cur(d).ID], desc'[Cur(d).ID])

\* C39: when the executor fails for a bead and the incremented counter stays
\* below 3, recordDispatchFailure changes only dispatch_failures (+1) and
\* last_failure: the labels, the description text before the metadata block
\* and every other metadata field as currently stored are unchanged.
C39_FailureFrame == [][C39_FrameStep]_vars

\* ---------------------------------------------------------------------------
\* Termination of idle-wait
\* ---------------------------------------------------------------------------

\* a second passes: always while idle-wait sleeps (up to its next tick), and
\* up to LiveStart before it is started
Elapse ==
    /\ iwpc = "sleeping" \/ nowSec < LiveStart
    /\ iwpc = "sleeping" => nowSec < iwloc.nextTick
    /\ nowSec' = nowSec + 1
    /\ wakeRet' = NoWakeRet
    /\ UNCHANGED <<wakeFile, idleFile, idleWr, cpc, nSignals, nConsumes, nTrue, iwpc,
                   iwloc, signalAt>>
    /\ WakeFrame

NextIdleWait ==
    \/ nSignals < MaxSignals /\ \E ok \in BOOLEAN : SignalWake(ok)
    \/ \E c \in Consumers :
          \/ nConsumes < MaxConsumes /\ ConsumeStat(c)
          \/ \E removed \in BOOLEAN : ConsumeRemove(c, removed)
    \/ \E inTown \in BOOLEAN, m \in IdleWaitMaxes : IdleWaitStart(inTown, m)
    \/ IdleWaitTick
    \/ WriteIdleNext(IdleStates)
    \/ Elapse

\* time passes, and the process handles a tick of its ticker when it is due
SpecIdleWait ==
    InitWake /\ [][NextIdleWait]_vars /\ WF_vars(Elapse) /\ WF_vars(IdleWaitTick)

\* the system is idle according to the idle state file
SystemIdle == ReadIdleState(idleFile) # <<>> /\ ReadIdleState(idleFile)[1].Idle

\* the second at which the sleeping idle-wait computed its deadline
SleepStart == iwloc.deadline - iwloc.sleepDuration

\* idle-wait handles a tick
HandlesTick == iwpc = "sleeping" /\ (iwpc' # iwpc \/ iwloc' # iwloc)

C40_IdleWaitStep ==
    /\ IdleWaitStarted =>
          /\ iwpc' = "returned" <=> ~SystemIdle
          /\ wakeFile' = wakeFile
    /\ HandlesTick =>
          /\ nowSec > SleepStart
          /\ (nowSec - SleepStart) % TickSeconds = 0
          /\ iwpc' = "returned" <=> (Stat(wakeFile) \/ nowSec >= iwloc.deadline)
          /\ iwpc' = "returned" =>
                 nowSec <= SleepStart + iwloc.sleepDuration + TickSeconds
          /\ wakeFile' = wakeFile
          /\ Stat(wakeFile) => Stat(wakeFile') /\ iwloc'.early

\* C40: idle-wait always terminates and never removes the wake signal: it
\* returns at once when the system is not idle, otherwise at the first
\* 5-second tick at which the idle-wake file exists or the deadline has
\* passed, no later than the sleep duration plus one tick after it started,
\* and the idle-wake file it saw is still there afterwards.
C40_IdleWaitTerminates ==
    /\ [][C40_IdleWaitStep]_vars
    /\ (iwpc = "sleeping") ~> (iwpc = "returned")

\* idle-wait slept, saw the wake signal at a tick before its deadline and
\* returned; the file is still there
C40_Witness ==
    /\ iwpc = "returned" /\ iwloc.early
    /\ nowSec < iwloc.deadline
    /\ Stat(wakeFile)

\* idle-wait slept 8 seconds and returned at its second tick
C40_DeadlineWitness ==
    /\ iwpc = "returned" /\ ~iwloc.early
    /\ iwloc.sleepDuration = 8
    /\ nowSec = SleepStart + 2 * TickSeconds

TypeOK ==
    /\ \A b \in Beads : status[b] \in {"open", "hooked", "closed"}
    /\ \A b \in Beads : labels[b] \subseteq {LabelQueued, LabelDispatchFailed, LabelDispatched}
    /\ lockHolder \in Dispatchers \cup {""}
    /\ activePolecats \in Nat
    /\ \A k \in LostKeys : \A j \in 1..Len(lost[k]) : lost[k][j] \in LostKinds

====
